---- MODULE Spec2Model ----
(***************************************************************************)
(* Model of the JSON translation pipeline of translate-json:               *)
(*   JsonProcessor       (src/src/utils/jsonProcessor.ts)                   *)
(*   TranslationService  (src/unnamed/part_001, lines 16-416)               *)
(*   CacheService        (src/src/services/cacheService.ts), its memory     *)
(*                       tier and its IndexedDB object store                *)
(*   LibreTranslateService (src/src/services/libreTranslateService.ts) as   *)
(*                       the answers its calls can give                     *)
(* JSON values are tagged records; an object is the ordered sequence of    *)
(* its entries (Object.entries order), an array the sequence of its items. *)
(* Sequences are 1-based here; array path segments keep the 0-based index  *)
(* of the source (index.toString()).                                       *)
(***************************************************************************)
EXTENDS Integers, Sequences, FiniteSets, Bags, TLC

(***************************************************************************)
(* JSON values                                                             *)
(***************************************************************************)
JStr(s) == [t |-> "str", s |-> s]
JNum(n) == [t |-> "num", n |-> n]
JArr(items) == [t |-> "arr", items |-> items]
JObj(entries) == [t |-> "obj", entries |-> entries]
JNull == [t |-> "null"]
JBool(b) == [t |-> "bool", b |-> b]
KV(k, v) == [k |-> k, v |-> v]

(***************************************************************************)
(* Character classes used by the regular expressions of JsonProcessor      *)
(***************************************************************************)
Lower == {"a","b","c","d","e","f","g","h","i","j","k","l","m",
          "n","o","p","q","r","s","t","u","v","w","x","y","z"}
Upper == {"A","B","C","D","E","F","G","H","I","J","K","L","M",
          "N","O","P","Q","R","S","T","U","V","W","X","Y","Z"}
Digit == {"0","1","2","3","4","5","6","7","8","9"}
HexDigit == Digit \cup {"a","b","c","d","e","f","A","B","C","D","E","F"}
Space == {" "}
WordChar == Lower \cup Upper \cup Digit \cup {"_"}
IdentStart == Lower \cup Upper \cup {"_"}

Ch(s, i) == SubSeq(s, i, i)
\* every character of s[i..j] is in class
AllIn(s, i, j, class) == \A p \in i..j : Ch(s, p) \in class
\* s[i..] starts with the literal lit
StartsAt(s, i, lit) == /\ i + Len(lit) - 1 <= Len(s)
                       /\ SubSeq(s, i, i + Len(lit) - 1) = lit
\* the lower-case form of an ASCII letter (the /i flag)
LowerOf(c) ==
    IF c \in Upper
    THEN CHOOSE d \in Lower :
           \E n \in 1..26 :
              /\ SubSeq("ABCDEFGHIJKLMNOPQRSTUVWXYZ", n, n) = c
              /\ SubSeq("abcdefghijklmnopqrstuvwxyz", n, n) = d
    ELSE c
StartsAtI(s, i, lit) ==
    /\ i + Len(lit) - 1 <= Len(s)
    /\ \A p \in 1..Len(lit) : LowerOf(Ch(s, i + p - 1)) = Ch(lit, p)

\* String.prototype.trim
Trim(s) ==
    LET nonSpace == {p \in 1..Len(s) : Ch(s, p) \notin Space}
    IN  IF nonSpace = {} THEN ""
        ELSE SubSeq(s, CHOOSE p \in nonSpace : \A q \in nonSpace : p <= q,
                       CHOOSE p \in nonSpace : \A q \in nonSpace : q <= p)

\* first position >= i whose character is c, or 0
FirstAt(s, i, c) ==
    LET ps == {p \in i..Len(s) : Ch(s, p) = c}
    IN  IF ps = {} THEN 0 ELSE CHOOSE p \in ps : \A q \in ps : p <= q
\* end of the maximal run of class characters starting at i (i-1 if none)
RunEnd(s, i, class) ==
    LET stop == {p \in i..Len(s) : Ch(s, p) \notin class}
    IN  IF stop = {} THEN Len(s)
        ELSE (CHOOSE p \in stop : \A q \in stop : p <= q) - 1

\* /^https?:\/\/[^\s]+$/i
URL_PATTERN(s) ==
    \E pre \in {"http://", "https://"} :
        /\ StartsAtI(s, 1, pre)
        /\ Len(s) > Len(pre)
        /\ AllIn(s, Len(pre) + 1, Len(s), {c \in {Ch(s, p) : p \in 1..Len(s)} : c \notin Space})
\* /^#([A-Fa-f0-9]{6}|[A-Fa-f0-9]{3})$/
HEX_COLOR_PATTERN(s) ==
    /\ Len(s) \in {4, 7}
    /\ Ch(s, 1) = "#"
    /\ AllIn(s, 2, Len(s), HexDigit)
\* /^[^\s@]+@[^\s@]+\.[^\s@]+$/
EMAIL_PATTERN(s) ==
    \E a \in 2..Len(s) :
        /\ Ch(s, a) = "@"
        /\ \A p \in 1..Len(s) : (p # a) => (Ch(s, p) \notin Space \cup {"@"})
        /\ \E d \in (a + 2)..(Len(s) - 1) : Ch(s, d) = "."
\* /^\d+$/ on s[i..j]
Digits(s, i, j) == i <= j /\ AllIn(s, i, j, Digit)
\* /^-?\d+(\.\d+)?$/
NUMBER_PATTERN(s) ==
    LET b == IF Len(s) >= 1 /\ Ch(s, 1) = "-" THEN 2 ELSE 1
    IN  \/ Digits(s, b, Len(s))
        \/ \E d \in (b + 1)..(Len(s) - 1) :
              Ch(s, d) = "." /\ Digits(s, b, d - 1) /\ Digits(s, d + 1, Len(s))

\* Length of the match of PLACEHOLDER_PATTERN starting exactly at i (0: none).
\* /\{\{[^}]+\}\}|\{[^}]+\}|%[a-zA-Z0-9_]+%|\$\{[^}]+\}/g, alternatives in order.
PlaceholderAt(s, i) ==
    LET c  == Ch(s, i)
        k1 == FirstAt(s, i + 2, "}")
        k2 == FirstAt(s, i + 1, "}")
        e3 == RunEnd(s, i + 1, WordChar)
        k4 == FirstAt(s, i + 2, "}")
    IN  IF c = "{" /\ StartsAt(s, i, "{{") /\ k1 > i + 2 /\ StartsAt(s, k1, "}}")
          THEN k1 + 2 - i
        ELSE IF c = "{" /\ k2 > i + 1
          THEN k2 + 1 - i
        ELSE IF c = "%" /\ e3 > i /\ StartsAt(s, e3 + 1, "%")
          THEN e3 + 2 - i
        ELSE IF c = "$" /\ StartsAt(s, i, "${") /\ k4 > i + 2
          THEN k4 + 1 - i
        ELSE 0
\* /\$[a-zA-Z_][a-zA-Z0-9_]*|\{[a-zA-Z_][a-zA-Z0-9_]*\}/g
VariableAt(s, i) ==
    LET c == Ch(s, i)
        e == RunEnd(s, i + 1, WordChar)
    IN  IF i + 1 > Len(s) \/ Ch(s, i + 1) \notin IdentStart THEN 0
        ELSE IF c = "$" THEN e + 1 - i
        ELSE IF c = "{" /\ StartsAt(s, e + 1, "}") THEN e + 2 - i
        ELSE 0
\* /<[^>]+>/g
HtmlTagAt(s, i) ==
    LET k == FirstAt(s, i + 1, ">")
    IN  IF Ch(s, i) = "<" /\ k > i + 1 THEN k + 1 - i ELSE 0

\* text.match(/.../g) followed by the reduce over match lengths: the scan is
\* leftmost, and continues after the end of each match.
RECURSIVE PlaceholderLength(_, _)
PlaceholderLength(s, i) ==
    IF i > Len(s) THEN 0
    ELSE LET n == PlaceholderAt(s, i)
         IN  IF n > 0 THEN n + PlaceholderLength(s, i + n)
             ELSE PlaceholderLength(s, i + 1)
RECURSIVE VariableLength(_, _)
VariableLength(s, i) ==
    IF i > Len(s) THEN 0
    ELSE LET n == VariableAt(s, i)
         IN  IF n > 0 THEN n + VariableLength(s, i + n)
             ELSE VariableLength(s, i + 1)
RECURSIVE HtmlLength(_, _)
HtmlLength(s, i) ==
    IF i > Len(s) THEN 0
    ELSE LET n == HtmlTagAt(s, i)
         IN  IF n > 0 THEN n + HtmlLength(s, i + n)
             ELSE HtmlLength(s, i + 1)

\* words of class characters joined by single sep: /^[a-z]+(sep[a-z]+)*$/
JoinedWords(s, sep) ==
    /\ Len(s) >= 1
    /\ AllIn(s, 1, Len(s), Lower \cup {sep})
    /\ Ch(s, 1) \in Lower
    /\ Ch(s, Len(s)) \in Lower
    /\ \A p \in 1..(Len(s) - 1) : ~(Ch(s, p) = sep /\ Ch(s, p + 1) = sep)
\* /^\d+px$|^\d+%$|^\d+em$|^\d+rem$/
CssUnit(s) ==
    \E u \in {"px", "%", "em", "rem"} :
        /\ Len(s) > Len(u)
        /\ StartsAt(s, Len(s) - Len(u) + 1, u)
        /\ Digits(s, 1, Len(s) - Len(u))
\* the technicalPatterns array of shouldTranslate, tested on the trimmed text
technicalPatterns(s) ==
    \/ Len(s) >= 1 /\ Ch(s, 1) \in Upper \cup {"_"}
                   /\ AllIn(s, 2, Len(s), Upper \cup Digit \cup {"_"})
    \/ Len(s) >= 1 /\ Ch(s, 1) \in Lower /\ AllIn(s, 2, Len(s), Lower \cup Upper)
    \/ JoinedWords(s, "-")
    \/ JoinedWords(s, "_")
    \/ Len(s) >= 10 /\ Digits(s, 1, 4) /\ Ch(s, 5) = "-" /\ Digits(s, 6, 7)
                    /\ Ch(s, 8) = "-" /\ Digits(s, 9, 10)
    \/ CssUnit(s)
    \/ \E pre \in {"rgb(", "rgba(", "hsl(", "hsla("} : StartsAtI(s, 1, pre)

\* the sum of the lengths of [...placeholderMatches, ...variableMatches]
matchedLength(text) == PlaceholderLength(text, 1) + VariableLength(text, 1)

\* shouldTranslate, evaluated rule by rule
shouldTranslateUncached(text) ==
    IF Len(text) = 0 THEN FALSE
    ELSE IF Len(Trim(text)) = 0 THEN FALSE
    ELSE IF Len(Trim(text)) < 2 THEN FALSE
    ELSE IF URL_PATTERN(text) THEN FALSE
    ELSE IF EMAIL_PATTERN(text) THEN FALSE
    ELSE IF HEX_COLOR_PATTERN(text) THEN FALSE
    ELSE IF NUMBER_PATTERN(Trim(text)) THEN FALSE
    ELSE IF 2 * matchedLength(text) > Len(text) THEN FALSE
    ELSE IF 10 * HtmlLength(text, 1) > 7 * Len(text) THEN FALSE
    ELSE ~technicalPatterns(Trim(text))

\* the string leaves of the trees drawn as inputs, classified once
KnownTexts == {"Hello", "World", "42", "https://example.com"}
KnownTranslatable == {text \in KnownTexts : shouldTranslateUncached(text)}
shouldTranslate(text) ==
    IF text \in KnownTexts THEN text \in KnownTranslatable
    ELSE shouldTranslateUncached(text)

(***************************************************************************)
(* Tree walker and deduplicator                                            *)
(***************************************************************************)
RECURSIVE FlatMap(_, _, _)
\* concatenation of F(i) for i = lo..n
FlatMap(F(_), lo, n) == IF lo > n THEN <<>> ELSE F(lo) \o FlatMap(F, lo + 1, n)

RECURSIVE extractStrings(_, _)
extractStrings(obj, path) ==
    CASE obj.t = "str" ->
           IF shouldTranslate(obj.s) THEN <<[path |-> path, value |-> obj.s]>>
           ELSE <<>>
      [] obj.t = "arr" ->
           LET F(i) == extractStrings(obj.items[i], Append(path, ToString(i - 1)))
           IN  FlatMap(F, 1, Len(obj.items))
      [] obj.t = "obj" ->
           LET F(i) == extractStrings(obj.entries[i].v, Append(path, obj.entries[i].k))
           IN  FlatMap(F, 1, Len(obj.entries))
      [] OTHER -> <<>>

\* deduplicateStrings(strings).unique: one record per distinct value, in the
\* order of first occurrence (Map insertion order), with the indices of all
\* occurrences of the value in ascending order.
RECURSIVE IndicesOf(_, _, _)
IndicesOf(strings, value, i) ==
    IF i > Len(strings) THEN <<>>
    ELSE IF strings[i].value = value
         THEN <<i>> \o IndicesOf(strings, value, i + 1)
         ELSE IndicesOf(strings, value, i + 1)
RECURSIVE deduplicateFrom(_, _)
deduplicateFrom(strings, i) ==
    IF i > Len(strings) THEN <<>>
    ELSE IF \E j \in 1..(i - 1) : strings[j].value = strings[i].value
         THEN deduplicateFrom(strings, i + 1)
         ELSE <<[path |-> strings[i].path,
                 value |-> strings[i].value,
                 originalIndices |-> IndicesOf(strings, strings[i].value, 1)]>>
              \o deduplicateFrom(strings, i + 1)
\* one unique string for every occurrence, whatever its value
deduplicateStringsEach(strings) ==
    [i \in DOMAIN strings |->
        [path |-> strings[i].path, value |-> strings[i].value, originalIndices |-> <<i>>]]

deduplicateStrings(strings) ==
    deduplicateFrom(strings, 1)

(***************************************************************************)
(* applyTranslations and its path keys                                     *)
(***************************************************************************)
\* the value of an absent optional field (job.translatedText, job.error,
\* session.translatedJson)
Undefined == "<undefined>"
\* undefined where a JSON value may stand (session.translatedJson)
UndefinedJson == [t |-> "undefined"]
\* JavaScript truthiness of an optional string
Truthy(x) == x # Undefined /\ x # ""

\* Array.prototype.join('.')
RECURSIVE JoinPath(_)
JoinPath(path) ==
    IF Len(path) = 0 THEN ""
    ELSE IF Len(path) = 1 THEN path[1]
    ELSE path[1] \o "." \o JoinPath(Tail(path))

\* translations is a function from path keys to texts (the Map)
RECURSIVE applyToValue(_, _, _)
applyToValue(obj, path, translations) ==
    CASE obj.t = "str" ->
           LET pathKey == JoinPath(path)
           IN  IF pathKey \in DOMAIN translations /\ Truthy(translations[pathKey])
               THEN JStr(translations[pathKey])
               ELSE obj
      [] obj.t = "arr" ->
           JArr([i \in 1..Len(obj.items) |->
                   applyToValue(obj.items[i], Append(path, ToString(i - 1)), translations)])
      [] obj.t = "obj" ->
           JObj([i \in 1..Len(obj.entries) |->
                   KV(obj.entries[i].k,
                      applyToValue(obj.entries[i].v, Append(path, obj.entries[i].k),
                                   translations))])
      [] OTHER -> obj
applyTranslations(originalObj, translations) == applyToValue(originalObj, <<>>, translations)

(***************************************************************************)
(* Bounds and inputs of the orchestrator model                             *)
(***************************************************************************)
\* accepted startTranslation/resumeTranslation calls in one behaviour
MaxLoops == 3
\* activations that have not returned yet, at any one time
MaxActive == 2
\* sessions created in one behaviour
MaxSessions == 1
\* the largest config.maxRetries
MaxRetries == 1
\* NEXT_PUBLIC_MAX_RETRIES, the retry budget resumeTranslation reads
EnvMaxRetries == 1
\* the largest config.batchSize
MaxBatchSize == 2

\* the tree of the specification's scenario: {"a":"Hello","b":["Hello","World"]}
TreeHello ==
    JObj(<<KV("a", JStr("Hello")),
           KV("b", JArr(<<JStr("Hello"), JStr("World")>>))>>)
\* a tree without translatable strings: {"id":"42","url":"https://example.com","n":7}
TreeNone ==
    JObj(<<KV("id", JStr("42")), KV("url", JStr("https://example.com")),
           KV("n", JNum(7))>>)
Trees == {TreeHello, TreeNone}
TargetLanguage == "fr"
Config(sourceLanguage, batchSize, maxRetries) ==
    [sourceLanguage |-> sourceLanguage, targetLanguage |-> TargetLanguage,
     batchSize |-> batchSize, maxRetries |-> maxRetries]
\* the TranslationConfig inputs: one job per batch with retries, one batch
\* without retries, and automatic source detection
Configs == {Config("en", 1, MaxRetries),
            Config("en", MaxBatchSize, 0),
            Config("auto", MaxBatchSize, MaxRetries)}

\* JsonProcessor.extractStrings(tree) and deduplicateStrings(...).unique for the
\* input trees, evaluated once
ExtractedStrings == [tree \in Trees |-> extractStrings(tree, <<>>)]
UniqueStrings == [tree \in Trees |-> deduplicateStrings(ExtractedStrings[tree])]

\* what the backend answers for a text when the call succeeds
TranslationOf(text) ==
    CASE text = "Hello" -> "Bonjour"
      [] text = "World" -> "Monde"
      [] OTHER -> text \o "'"
\* what the /detect endpoint answers: a language code, or "error" when the
\* request fails
DetectResponses == {"en", "error"}
\* detectLanguage handing the failure on as if it were a language code
detectLanguageRaw(response) ==
    response

\* libreTranslateService.detectLanguage: response.data[0]?.language || 'en',
\* and 'en' when the request throws
detectLanguage(response) ==
    IF response = "error" \/ response = "" THEN "en" ELSE response

(***************************************************************************)
(* Sessions, batches, jobs                                                 *)
(***************************************************************************)
NewJob(item, session) ==
    [originalText |-> item.value,
     sourceLanguage |-> session.sourceLanguage,
     targetLanguage |-> session.targetLanguage,
     status |-> "pending",
     retryCount |-> 0,
     translatedText |-> Undefined,
     error |-> Undefined]

RECURSIVE createBatchesFrom(_, _, _, _)
createBatchesFrom(strings, batchSize, session, i) ==
    IF i > Len(strings) THEN <<>>
    ELSE LET last == IF i + batchSize - 1 < Len(strings)
                     THEN i + batchSize - 1 ELSE Len(strings)
             batchStrings == SubSeq(strings, i, last)
         IN  <<[jobs |-> [j \in 1..Len(batchStrings) |-> NewJob(batchStrings[j], session)],
                status |-> "pending",
                progress |-> <<0, 1>>]>>
             \o createBatchesFrom(strings, batchSize, session, i + batchSize)
\* createBatches whose loop starts at the second string
createBatchesFromSecond(strings, batchSize, session) ==
    createBatchesFrom(strings, batchSize, session, 2)

createBatches(strings, batchSize, session) ==
    createBatchesFrom(strings, batchSize, session, 1)

\* number of jobs of the session with the given status
CountJobs(batches, status) ==
    LET slots == {<<b, j>> \in (DOMAIN batches) \X (1..MaxBatchSize + 1) :
                    j \in DOMAIN batches[b].jobs}
    IN  Cardinality({x \in slots : batches[x[1]].jobs[x[2]].status = status})

\* updateSessionProgress forgetting the error count
updateSessionProgressNoErrors(session) ==
    [session EXCEPT !.translatedStrings = CountJobs(session.batches, "completed"),
                    !.skippedStrings = CountJobs(session.batches, "skipped")]

updateSessionProgress(session) ==
    [session EXCEPT !.translatedStrings = CountJobs(session.batches, "completed"),
                    !.skippedStrings = CountJobs(session.batches, "skipped"),
                    !.errorStrings = CountJobs(session.batches, "error")]

\* all jobs of the session in batch order, then job order
RECURSIVE AllJobs(_, _)
AllJobs(batches, b) ==
    IF b > Len(batches) THEN <<>> ELSE batches[b].jobs \o AllJobs(batches, b + 1)

\* the translation map built by generateFinalResult: uniqueIndex advances only
\* past a job that is completed and has a translatedText
RECURSIVE translationMapFrom(_, _, _, _, _)
translationMapFrom(jobs, j, uniqueIndex, uniqueStrings, allStrings) ==
    IF j > Len(jobs) THEN [k \in {} |-> ""]
    ELSE IF jobs[j].status = "completed" /\ Truthy(jobs[j].translatedText)
         THEN LET rest == translationMapFrom(jobs, j + 1, uniqueIndex + 1,
                                             uniqueStrings, allStrings)
                  keys == IF uniqueIndex <= Len(uniqueStrings)
                          THEN {JoinPath(allStrings[uniqueStrings[uniqueIndex]
                                                     .originalIndices[n]].path) :
                                  n \in DOMAIN uniqueStrings[uniqueIndex].originalIndices}
                          ELSE {}
              IN  rest @@ [k \in keys |-> jobs[j].translatedText]
         ELSE translationMapFrom(jobs, j + 1, uniqueIndex, uniqueStrings, allStrings)

\* generateFinalResult as it would be if applyTranslations wrote the
\* translations into the tree it is given instead of into a clone
generateFinalResultInPlace(session) ==
    LET allStrings == ExtractedStrings[session.originalJson]
        uniqueStrings == UniqueStrings[session.originalJson]
        translationMap == translationMapFrom(AllJobs(session.batches, 1), 1, 1,
                                             uniqueStrings, allStrings)
        translated == applyTranslations(session.originalJson, translationMap)
    IN  [session EXCEPT !.translatedJson = translated, !.originalJson = translated]
generateFinalResult(session) ==
    LET allStrings == ExtractedStrings[session.originalJson]
        uniqueStrings == UniqueStrings[session.originalJson]
        translationMap == translationMapFrom(AllJobs(session.batches, 1), 1, 1,
                                             uniqueStrings, allStrings)
    IN  [session EXCEPT !.translatedJson =
                            applyTranslations(session.originalJson, translationMap)]

(***************************************************************************)
(* CacheService.getCacheKey                                                 *)
(***************************************************************************)
\* runs of printable ASCII characters with the code of their first character
\* (the double quote, the backslash and the backquote are left out)
AsciiRuns == <<[from |-> 32, chars |-> " !"],
               [from |-> 35, chars |-> "#$%&'()*+,-./0123456789:;<=>?@ABCDEFGHIJKLMNOPQRSTUVWXYZ["],
               [from |-> 93, chars |-> "]^_"],
               [from |-> 97, chars |-> "abcdefghijklmnopqrstuvwxyz{|}~"]>>
\* String.prototype.charCodeAt of a one-character string
CharCode(c) ==
    LET run == CHOOSE r \in DOMAIN AsciiRuns : FirstAt(AsciiRuns[r].chars, 1, c) > 0
    IN  AsciiRuns[run].from + FirstAt(AsciiRuns[run].chars, 1, c) - 1
HexDigitOf(n) == Ch("0123456789ABCDEF", n + 1)
\* the characters encodeURIComponent leaves as they are
UriUnreserved == Lower \cup Upper \cup Digit \cup {"-", "_", ".", "!", "~", "*", "'", "(", ")"}
\* encodeURIComponent, on ASCII text: %XX for every other character
RECURSIVE encodeURIComponent(_)
encodeURIComponent(s) ==
    IF s = "" THEN ""
    ELSE LET c == Ch(s, 1)
             code == CharCode(c)
         IN  (IF c \in UriUnreserved THEN c
              ELSE "%" \o HexDigitOf(code \div 16) \o HexDigitOf(code % 16))
             \o encodeURIComponent(SubSeq(s, 2, Len(s)))
Base64Digit(n) ==
    Ch("ABCDEFGHIJKLMNOPQRSTUVWXYZabcdefghijklmnopqrstuvwxyz0123456789+/", n + 1)
\* btoa: three bytes give four digits, a shorter tail is padded with "="
RECURSIVE btoa(_)
btoa(s) ==
    IF s = "" THEN ""
    ELSE LET n == Len(s)
             b1 == CharCode(Ch(s, 1))
             b2 == IF n >= 2 THEN CharCode(Ch(s, 2)) ELSE 0
             b3 == IF n >= 3 THEN CharCode(Ch(s, 3)) ELSE 0
         IN  Base64Digit(b1 \div 4)
             \o Base64Digit((b1 % 4) * 16 + b2 \div 16)
             \o (IF n >= 2 THEN Base64Digit((b2 % 16) * 4 + b3 \div 64) ELSE "=")
             \o (IF n >= 3 THEN Base64Digit(b3 % 64) ELSE "=")
             \o (IF n > 3 THEN btoa(SubSeq(s, 4, n)) ELSE "")

\* the template literal of getCacheKey, URI-encoded, then base64
encodeCacheKey(text, sourceLanguage, targetLanguage) ==
    btoa(encodeURIComponent(text \o "-" \o sourceLanguage \o "-" \o targetLanguage))
\* the texts and languages of the service inputs
ServiceTriples ==
    {u.value : u \in UNION {{UniqueStrings[tree][i] : i \in DOMAIN UniqueStrings[tree]} :
                                tree \in Trees}}
    \X ({c.sourceLanguage : c \in Configs} \cup {detectLanguage(r) : r \in DetectResponses})
    \X {TargetLanguage}
\* their keys, computed once
ServiceCacheKeys ==
    {<<triple, encodeCacheKey(triple[1], triple[2], triple[3])>> : triple \in ServiceTriples}
getCacheKey(text, sourceLanguage, targetLanguage) ==
    LET known == {p \in ServiceCacheKeys : p[1] = <<text, sourceLanguage, targetLanguage>>}
    IN  IF known # {} THEN (CHOOSE p \in known : TRUE)[2]
        ELSE encodeCacheKey(text, sourceLanguage, targetLanguage)

(***************************************************************************)
(* TranslationService: state                                               *)
(***************************************************************************)
VARIABLES
    currentSession,   \* index into sessions of this.currentSession, 0 for null
    isProcessing,     \* this.isProcessing
    pauseRequested,   \* this.pauseRequested
    sessions,         \* every TranslationSession object created so far
    loops,            \* the activations of startTranslation/resumeTranslation
    memoryCache,      \* cacheService.memoryCache: cache key -> translatedText
    store,            \* the IndexedDB object store: cache key -> translatedText
    event,            \* what the last step did, as its caller observes it
    hist              \* per session, what the backend has been asked and answered

vars == <<currentSession, isProcessing, pauseRequested, sessions, loops, memoryCache,
          store, event, hist>>

\* positions at which an activation is suspended on a macrotask (IndexedDB
\* request, timer, network); between two of them the code runs to completion
Waiting == {"cacheWait", "rateWait", "detectWait", "translateWait",
            "cacheSetWait", "backoff"}
\* no activation is in the middle of a synchronous stretch
Quiescent == \A l \in DOMAIN loops : loops[l].pc \in Waiting \cup {"done"}
ActiveLoops == {l \in DOMAIN loops : loops[l].pc # "done"}

\* an activation that has returned
LoopDone ==
    [kind |-> "", sid |-> 0, maxRetries |-> 0, pc |-> "done", bi |-> 0,
     pending |-> <<>>, pi |-> 0, src |-> "", attempts |-> 0, wait |-> 0]
\* A session object that neither the service nor an activation refers to any
\* more cannot influence the service; it is replaced by Collected.
Collected ==
    [sourceLanguage |-> "", targetLanguage |-> "", originalJson |-> [t |-> "none"],
     translatedJson |-> UndefinedJson, batches |-> <<>>, totalStrings |-> 0,
     translatedStrings |-> 0, skippedStrings |-> 0, errorStrings |-> 0,
     status |-> "collected"]
\* translateCalls: translate calls issued for the session; okTexts/failedTexts:
\* texts whose translate call has succeeded/failed; emptyCache: the memoryCache was
\* empty when the session started; pausedDone: the jobs (<<batch, position>>)
\* that were completed when the session was last paused during a run and has
\* not been resumed since; keptDone: the jobs that were completed at the pause
\* that preceded an accepted resumeTranslation; resumed: a resumeTranslation
\* has been accepted for the session; retryDue: the jobs that were in error
\* when the last resumeTranslation was accepted and that processJob has not
\* been called for since
NewHist(emptyCache) ==
    [translateCalls |-> 0, okTexts |-> {}, failedTexts |-> {}, emptyCache |-> emptyCache,
     pausedDone |-> {}, keptDone |-> {}, resumed |-> FALSE, retryDue |-> {}]
\* the jobs of a session object that have the given status
JobsWithStatus(S, status) ==
    {x \in (DOMAIN S.batches) \X (1..MaxBatchSize + 1) :
        x[2] \in DOMAIN S.batches[x[1]].jobs
        /\ S.batches[x[1]].jobs[x[2]].status = status}
\* the completed jobs of a session object
CompletedJobs(S) == JobsWithStatus(S, "completed")
CollectedHist == NewHist(FALSE)
LiveSessions == {sid \in DOMAIN sessions : sessions[sid].status # "collected"}
\* drop the sessions of ss that are unreachable once cur is the current session
\* and ls are the activations
Collect(ss, cur, ls) ==
    [sid \in DOMAIN ss |->
        IF sid = cur \/ \E l \in DOMAIN ls : ls[l].sid = sid
        THEN ss[sid] ELSE Collected]
CollectHist(hs, cur, ls) ==
    [sid \in DOMAIN hs |->
        IF sid = cur \/ \E l \in DOMAIN ls : ls[l].sid = sid
        THEN hs[sid] ELSE CollectedHist]
NewLoop(kind, sid, maxRetries) ==
    [kind |-> kind, sid |-> sid, maxRetries |-> maxRetries, pc |-> "batches",
     bi |-> 1, pending |-> <<>>, pi |-> 0, src |-> "", attempts |-> 0, wait |-> 0]

\* the job an activation is working on
JobOf(L) == sessions[L.sid].batches[L.bi].jobs[L.pending[L.pi]]

\* RateLimiterService: state
VARIABLES
    clock,        \* Date.now()
    requests,     \* this.limiter.requests: the timestamps kept
    timers,       \* the bag of times at which a pending setTimeout(checkSlot) is due
    admissions,   \* the times at which waitForSlot resolved, in order
    translates    \* the times at which a translate call was issued, in order

rateVars == <<clock, requests, timers, admissions, translates>>

\* CacheService with its timestamps: state
VARIABLES
    memoryEntries, \* this.memoryCache: the [key, entry] pairs in insertion order
    dbEntries,     \* the IndexedDB object store: key -> entry
    dbQueue,       \* the IndexedDB requests not yet served, oldest first
    callers,       \* the processJob activations using the cache
    lastSet,       \* history: key -> the entry of the latest set
    returned       \* what a get resolved with in the step just taken

ttlVars == <<memoryEntries, dbEntries, dbQueue, callers, lastSet, returned>>

\* the value of an absent entry, and of a get that resolved with null
NoEntry == [timestamp |-> -1]
Null == "<null>"
NoResult == [value |-> Undefined]

\* the pure functions: the arguments drawn and what the call returned
VARIABLES
    arg,
    result

pureVars == <<arg, result>>
NoArg == [kind |-> "none"]
NoOutput == [op |-> "none"]

\* every service as constructed
ServicesInit ==
    /\ currentSession = 0
    /\ isProcessing = FALSE
    /\ pauseRequested = FALSE
    /\ sessions = <<>>
    /\ loops = <<>>
    /\ memoryCache = [k \in {} |-> ""]
    /\ store = [k \in {} |-> ""]
    /\ event = "init"
    /\ hist = <<>>
    /\ clock = 0
    /\ requests = <<>>
    /\ timers = EmptyBag
    /\ admissions = <<>>
    /\ translates = <<>>
    /\ memoryEntries = <<>>
    /\ dbEntries = <<>>
    /\ dbQueue = <<>>
    /\ callers = [c \in 1..MaxActive |-> [pc |-> "idle"]]
    /\ lastSet = <<>>
    /\ returned = NoResult

Init ==
    /\ ServicesInit
    /\ arg = NoArg
    /\ result = NoOutput

(***************************************************************************)
(* TranslationService: the public operations                               *)
(***************************************************************************)
\* startTranslation throwing only after it has claimed the service
startRejectedLate(message) ==
    /\ event' = message
    /\ isProcessing' = TRUE
    /\ pauseRequested' = FALSE
    /\ UNCHANGED <<currentSession, sessions, loops, hist>>

\* startTranslation throws before it has assigned anything
startRejected(message) ==
    /\ event' = message
    /\ UNCHANGED <<currentSession, isProcessing, pauseRequested, sessions, loops, hist>>

startTranslation(jsonData, config) ==
    LET strings == ExtractedStrings[jsonData]
        uniqueStrings == UniqueStrings[jsonData]
        session == [sourceLanguage |-> config.sourceLanguage,
                    targetLanguage |-> config.targetLanguage,
                    originalJson |-> jsonData,
                    translatedJson |-> UndefinedJson,
                    batches |-> <<>>,
                    totalStrings |-> Len(strings),
                    translatedStrings |-> 0,
                    skippedStrings |-> 0,
                    errorStrings |-> 0,
                    status |-> "processing"]
    IN  /\ Quiescent
        /\ IF isProcessing
           THEN startRejected("start:AlreadyInProgress")
           ELSE IF Len(strings) = 0
           THEN startRejected("start:NoTranslatableStrings")
           ELSE /\ Len(loops) < MaxLoops
                /\ Cardinality(ActiveLoops) < MaxActive
                /\ Len(sessions) < MaxSessions
                /\ currentSession' = Len(sessions) + 1
                /\ isProcessing' = TRUE
                /\ pauseRequested' = FALSE
                /\ loops' = Append(loops,
                       NewLoop("start", Len(sessions) + 1, config.maxRetries))
                /\ sessions' = Collect(
                       Append(sessions,
                           [session EXCEPT !.batches =
                               createBatches(uniqueStrings, config.batchSize, session)]),
                       currentSession', loops')
                /\ hist' = CollectHist(Append(hist, NewHist(DOMAIN memoryCache = {})),
                                       currentSession', loops')
                /\ event' = "start:accepted"
        /\ UNCHANGED <<memoryCache, store>>

resumeTranslation ==
    /\ Quiescent
    /\ IF currentSession = 0 \/ isProcessing
       THEN /\ event' = "resume:NoSessionOrProcessing"
            /\ UNCHANGED <<isProcessing, pauseRequested, sessions, loops, hist>>
       ELSE /\ Len(loops) < MaxLoops
            /\ Cardinality(ActiveLoops) < MaxActive
            /\ isProcessing' = TRUE
            /\ pauseRequested' = FALSE
            /\ sessions' = [sessions EXCEPT ![currentSession].status = "processing"]
            /\ loops' = Append(loops, NewLoop("resume", currentSession, EnvMaxRetries))
            /\ hist' = [hist EXCEPT ![currentSession].resumed = TRUE,
                                    ![currentSession].keptDone =
                                        @ \cup hist[currentSession].pausedDone,
                                    ![currentSession].pausedDone = {},
                                    ![currentSession].retryDue =
                                        JobsWithStatus(sessions[currentSession], "error")]
            /\ event' = "resume:accepted"
    /\ UNCHANGED <<currentSession, memoryCache, store>>

pauseTranslation ==
    /\ Quiescent
    /\ IF isProcessing
       THEN /\ pauseRequested' = TRUE
            /\ sessions' = IF currentSession # 0
                           THEN [sessions EXCEPT ![currentSession].status = "paused"]
                           ELSE sessions
            /\ hist' = IF currentSession # 0
                       THEN [hist EXCEPT ![currentSession].pausedDone =
                                             CompletedJobs(sessions[currentSession])]
                       ELSE hist
       ELSE UNCHANGED <<pauseRequested, sessions, hist>>
    /\ event' = "pause"
    /\ UNCHANGED <<currentSession, isProcessing, loops, memoryCache, store>>

stopTranslation ==
    /\ Quiescent
    /\ pauseRequested' = TRUE
    /\ isProcessing' = FALSE
    /\ sessions' = IF currentSession # 0
                   THEN [sessions EXCEPT ![currentSession].status = "paused"]
                   ELSE sessions
    /\ hist' = IF currentSession # 0 /\ ActiveLoops # {}
               THEN [hist EXCEPT ![currentSession].pausedDone =
                                     CompletedJobs(sessions[currentSession])]
               ELSE hist
    /\ event' = "stop"
    /\ UNCHANGED <<currentSession, loops, memoryCache, store>>

(***************************************************************************)
(* TranslationService: the processing loop of one activation l             *)
(***************************************************************************)
\* batch.jobs.filter(job => job.status === 'pending' || job.status === 'error'),
\* as the ascending sequence of job positions
RECURSIVE pendingJobsFrom(_, _)
pendingJobsFrom(jobs, j) ==
    IF j > Len(jobs) THEN <<>>
    ELSE IF jobs[j].status \in {"pending", "error"}
         THEN <<j>> \o pendingJobsFrom(jobs, j + 1)
         ELSE pendingJobsFrom(jobs, j + 1)

\* batch.jobs.filter(j => completed || skipped).length / batch.jobs.length * 100,
\* kept as the pair <<numerator, denominator>>
batchProgress(jobs) ==
    <<100 * Cardinality({j \in DOMAIN jobs : jobs[j].status \in {"completed", "skipped"}}),
      Len(jobs)>>

\* processBatches without the skip of completed batches
processBatchesNoSkip(l) ==
    LET L == loops[l]
        S == sessions[L.sid]
    IN  /\ L.pc = "batches"
        /\ IF L.bi > Len(S.batches) \/ pauseRequested
           THEN /\ loops' = [loops EXCEPT ![l].pc = "final"]
                /\ UNCHANGED sessions
           ELSE /\ sessions' = [sessions EXCEPT ![L.sid].batches[L.bi].status = "processing"]
                /\ loops' = [loops EXCEPT ![l].pc = "jobs",
                                          ![l].pending = pendingJobsFrom(S.batches[L.bi].jobs, 1),
                                          ![l].pi = 1]
        /\ event' = "step"
        /\ UNCHANGED <<currentSession, isProcessing, pauseRequested, memoryCache, store, hist>>

\* processBatches, one iteration of the for loop up to the body of processBatch
processBatches(l) ==
    LET L == loops[l]
        S == sessions[L.sid]
    IN  /\ L.pc = "batches"
        /\ IF L.bi > Len(S.batches) \/ pauseRequested
           THEN /\ loops' = [loops EXCEPT ![l].pc = "final"]
                /\ UNCHANGED sessions
           ELSE IF S.batches[L.bi].status = "completed"
           THEN /\ loops' = [loops EXCEPT ![l].bi = L.bi + 1]
                /\ UNCHANGED sessions
           ELSE /\ sessions' = [sessions EXCEPT ![L.sid].batches[L.bi].status = "processing"]
                /\ loops' = [loops EXCEPT ![l].pc = "jobs",
                                          ![l].pending = pendingJobsFrom(S.batches[L.bi].jobs, 1),
                                          ![l].pi = 1]
        /\ event' = "step"
        /\ UNCHANGED <<currentSession, isProcessing, pauseRequested, memoryCache, store, hist>>

\* processJob from its entry to the first suspension: the job becomes
\* translating and the memoryCache is consulted; a hit completes the job at once
enterProcessJob(l, attempts) ==
    LET L == loops[l]
        job == JobOf(L)
        key == getCacheKey(job.originalText, job.sourceLanguage, job.targetLanguage)
        cachedResult == IF key \in DOMAIN memoryCache THEN memoryCache[key] ELSE Undefined
    IN  /\ hist' = [hist EXCEPT ![L.sid].retryDue = @ \ {<<L.bi, L.pending[L.pi]>>}]
        /\ IF Truthy(cachedResult)
           THEN /\ sessions' = [sessions EXCEPT
                       ![L.sid].batches[L.bi].jobs[L.pending[L.pi]] =
                           [job EXCEPT !.translatedText = cachedResult,
                                       !.status = "completed"]]
                /\ loops' = [loops EXCEPT ![l].pc = "jobDone", ![l].attempts = attempts,
                                          ![l].wait = 0]
           ELSE /\ sessions' = [sessions EXCEPT
                       ![L.sid].batches[L.bi].jobs[L.pending[L.pi]].status = "translating"]
                /\ loops' = [loops EXCEPT ![l].pc = "cacheWait", ![l].attempts = attempts,
                                          ![l].wait = 0]

\* processBatch, the head of the for loop over pendingJobs and what follows it
processBatch(l) ==
    LET L == loops[l]
        S == sessions[L.sid]
    IN  /\ L.pc = "jobs"
        /\ IF L.pi > Len(L.pending) \/ pauseRequested
           THEN /\ sessions' = [sessions EXCEPT ![L.sid] =
                       updateSessionProgress(
                           IF ~pauseRequested
                           THEN [S EXCEPT !.batches[L.bi].status = "completed"]
                           ELSE S)]
                /\ loops' = [loops EXCEPT ![l].pc = "batches", ![l].bi = L.bi + 1,
                                          ![l].pending = <<>>, ![l].pi = 0,
                                          ![l].attempts = 0]
                /\ UNCHANGED hist
           ELSE enterProcessJob(l, 1)
        /\ event' = "step"
        /\ UNCHANGED <<currentSession, isProcessing, pauseRequested, memoryCache, store>>

\* how a request to IndexedDB ends: openDB and the request succeed, or one of
\* them fails
IndexedDBOutcomes == {"success", "error"}

\* cacheService.get whose failing IndexedDB request is not caught: processJob
\* lands in its catch block and gives the job up
cacheLookupReturnedThrows(l, outcome) ==
    LET L == loops[l]
        job == JobOf(L)
        key == getCacheKey(job.originalText, job.sourceLanguage, job.targetLanguage)
    IN  /\ Quiescent
        /\ L.pc = "cacheWait"
        /\ IF outcome = "error"
           THEN /\ sessions' = [sessions EXCEPT
                       ![L.sid].batches[L.bi].jobs[L.pending[L.pi]] =
                           [job EXCEPT !.retryCount = job.retryCount + 1,
                                       !.status = "error",
                                       !.error = "Translation failed"]]
                /\ loops' = [loops EXCEPT ![l].pc = "jobDone"]
                /\ UNCHANGED memoryCache
           ELSE IF key \in DOMAIN store
           THEN /\ memoryCache' = (key :> store[key]) @@ memoryCache
                /\ sessions' = [sessions EXCEPT
                       ![L.sid].batches[L.bi].jobs[L.pending[L.pi]] =
                           [job EXCEPT !.translatedText = store[key],
                                       !.status = "completed"]]
                /\ loops' = [loops EXCEPT ![l].pc = "jobDone"]
           ELSE /\ loops' = [loops EXCEPT ![l].pc = "rateWait"]
                /\ UNCHANGED <<sessions, memoryCache>>
        /\ event' = IF outcome = "error" THEN "cache:readFailed" ELSE "step"
        /\ UNCHANGED <<currentSession, isProcessing, pauseRequested, store, hist>>

\* cacheService.get after the memory tier missed: the IndexedDB request
\* answers with what the object store holds by then. A stored entry goes into
\* the memory tier and completes the job; else processJob asks the rate
\* limiter for a slot. A request that fails (the catch block, request.onerror)
\* makes get return null like a miss
cacheLookupReturned(l, outcome) ==
    LET L == loops[l]
        job == JobOf(L)
        key == getCacheKey(job.originalText, job.sourceLanguage, job.targetLanguage)
    IN  /\ Quiescent
        /\ L.pc = "cacheWait"
        /\ IF outcome = "success" /\ key \in DOMAIN store
           THEN /\ memoryCache' = (key :> store[key]) @@ memoryCache
                /\ sessions' = [sessions EXCEPT
                       ![L.sid].batches[L.bi].jobs[L.pending[L.pi]] =
                           [job EXCEPT !.translatedText = store[key],
                                       !.status = "completed"]]
                /\ loops' = [loops EXCEPT ![l].pc = "jobDone"]
           ELSE /\ loops' = [loops EXCEPT ![l].pc = "rateWait"]
                /\ UNCHANGED <<sessions, memoryCache>>
        /\ event' = IF outcome = "error" THEN "cache:readFailed" ELSE "step"
        /\ UNCHANGED <<currentSession, isProcessing, pauseRequested, store, hist>>

\* waitForSlot resolved: detect the language if the source is 'auto', else translate
slotGranted(l) ==
    LET L == loops[l]
        job == JobOf(L)
    IN  /\ Quiescent
        /\ L.pc = "rateWait"
        /\ IF job.sourceLanguage = "auto"
           THEN /\ loops' = [loops EXCEPT ![l].pc = "detectWait"]
                /\ UNCHANGED hist
           ELSE /\ loops' = [loops EXCEPT ![l].pc = "translateWait",
                                          ![l].src = job.sourceLanguage]
                /\ hist' = [hist EXCEPT ![L.sid].translateCalls = @ + 1]
        /\ event' = "step"
        /\ UNCHANGED <<currentSession, isProcessing, pauseRequested, sessions, memoryCache, store>>

\* detectLanguage returned (it never throws); the translate call is issued
detectReturned(l, response) ==
    LET L == loops[l]
    IN  /\ Quiescent
        /\ L.pc = "detectWait"
        /\ loops' = [loops EXCEPT ![l].pc = "translateWait",
                                  ![l].src = detectLanguage(response)]
        /\ hist' = [hist EXCEPT ![L.sid].translateCalls = @ + 1]
        /\ event' = IF response = "error" THEN "detect:failed" ELSE "step"
        /\ UNCHANGED <<currentSession, isProcessing, pauseRequested, sessions, memoryCache, store>>

\* the translate call succeeded: the job completes and cacheService.set puts the
\* entry into the memory tier before it suspends on the durable write
translateSucceeded(l) ==
    LET L == loops[l]
        job == JobOf(L)
        text == TranslationOf(job.originalText)
    IN  /\ Quiescent
        /\ L.pc = "translateWait"
        /\ sessions' = [sessions EXCEPT
               ![L.sid].batches[L.bi].jobs[L.pending[L.pi]] =
                   [job EXCEPT !.translatedText = text, !.status = "completed"]]
        /\ memoryCache' = (getCacheKey(job.originalText, L.src, job.targetLanguage) :> text) @@ memoryCache
        /\ loops' = [loops EXCEPT ![l].pc = "cacheSetWait"]
        /\ UNCHANGED store
        /\ hist' = [hist EXCEPT ![L.sid].okTexts = @ \cup {job.originalText}]
        /\ event' = "translate:ok"
        /\ UNCHANGED <<currentSession, isProcessing, pauseRequested>>

\* the delay computed from the retryCount before its increment
backoffDelayOldCount(retryCount) ==
    2 ^ (retryCount - 1) * 1000

\* the delay of the setTimeout in the catch block of processJob, in ms:
\* Math.pow(2, job.retryCount) * 1000
backoffDelay(retryCount) ==
    2 ^ retryCount * 1000

\* the catch block of processJob comparing the old retryCount with maxRetries
translateFailedOldCount(l) ==
    LET L == loops[l]
        job == JobOf(L)
        retryCount == job.retryCount + 1
    IN  /\ Quiescent
        /\ L.pc = "translateWait"
        /\ IF job.retryCount <= L.maxRetries
           THEN /\ sessions' = [sessions EXCEPT
                       ![L.sid].batches[L.bi].jobs[L.pending[L.pi]].retryCount = retryCount]
                /\ loops' = [loops EXCEPT ![l].pc = "backoff",
                                          ![l].wait = backoffDelay(retryCount)]
           ELSE /\ sessions' = [sessions EXCEPT
                       ![L.sid].batches[L.bi].jobs[L.pending[L.pi]] =
                           [job EXCEPT !.retryCount = retryCount,
                                       !.status = "error",
                                       !.error = "Translation failed"]]
                /\ loops' = [loops EXCEPT ![l].pc = "jobDone"]
        /\ hist' = [hist EXCEPT ![L.sid].failedTexts = @ \cup {job.originalText}]
        /\ event' = "translate:failed"
        /\ UNCHANGED <<currentSession, isProcessing, pauseRequested, memoryCache, store>>

\* the translate call failed: the catch block of processJob
translateFailed(l) ==
    LET L == loops[l]
        job == JobOf(L)
        retryCount == job.retryCount + 1
    IN  /\ Quiescent
        /\ L.pc = "translateWait"
        /\ IF retryCount <= L.maxRetries
           THEN /\ sessions' = [sessions EXCEPT
                       ![L.sid].batches[L.bi].jobs[L.pending[L.pi]].retryCount = retryCount]
                /\ loops' = [loops EXCEPT ![l].pc = "backoff",
                                          ![l].wait = backoffDelay(retryCount)]
           ELSE /\ sessions' = [sessions EXCEPT
                       ![L.sid].batches[L.bi].jobs[L.pending[L.pi]] =
                           [job EXCEPT !.retryCount = retryCount,
                                       !.status = "error",
                                       !.error = "Translation failed"]]
                /\ loops' = [loops EXCEPT ![l].pc = "jobDone"]
        /\ hist' = [hist EXCEPT ![L.sid].failedTexts = @ \cup {job.originalText}]
        /\ event' = "translate:failed"
        /\ UNCHANGED <<currentSession, isProcessing, pauseRequested, memoryCache, store>>

\* cacheService.set after its first await: the entry built on entry to set is
\* put into the object store; when openDB or the put fails, the catch block
\* logs the error and set returns as well
cacheSetReturned(l, outcome) ==
    LET L == loops[l]
        job == JobOf(L)
    IN  /\ Quiescent
        /\ L.pc = "cacheSetWait"
        /\ store' = IF outcome = "success"
                    THEN (getCacheKey(job.originalText, L.src, job.targetLanguage)
                             :> TranslationOf(job.originalText)) @@ store
                    ELSE store
        /\ loops' = [loops EXCEPT ![l].pc = "jobDone"]
        /\ event' = IF outcome = "error" THEN "cache:writeFailed" ELSE "step"
        /\ UNCHANGED <<currentSession, isProcessing, pauseRequested, sessions,
                       memoryCache, hist>>

\* the backoff timer fired after loops[l].wait ms: processJob calls itself
backoffElapsed(l) ==
    /\ Quiescent
    /\ loops[l].pc = "backoff"
    /\ enterProcessJob(l, loops[l].attempts + 1)
    /\ event' = "step"
    /\ UNCHANGED <<currentSession, isProcessing, pauseRequested, memoryCache, store>>

\* processJob returned to processBatch: progress of the batch, next job
jobDone(l) ==
    LET L == loops[l]
    IN  /\ L.pc = "jobDone"
        /\ sessions' = [sessions EXCEPT ![L.sid].batches[L.bi].progress =
                            batchProgress(sessions[L.sid].batches[L.bi].jobs)]
        /\ loops' = [loops EXCEPT ![l].pc = "jobs", ![l].pi = L.pi + 1]
        /\ event' = "step"
        /\ UNCHANGED <<currentSession, isProcessing, pauseRequested, memoryCache, store, hist>>

\* the end of processBatches and the rest of startTranslation/resumeTranslation:
\* the final result, the completed status, and the finally block
finishRun(l) ==
    LET L == loops[l]
        S == sessions[L.sid]
        generated == IF ~pauseRequested /\ S.status # "error"
                     THEN [sessions EXCEPT ![L.sid] = generateFinalResult(S)]
                     ELSE sessions
        \* startTranslation completes its own session object, resumeTranslation
        \* whatever this.currentSession is by then
        target == IF L.kind = "start" THEN L.sid ELSE currentSession
    IN  /\ L.pc = "final"
        /\ loops' = [loops EXCEPT ![l] = LoopDone]
        /\ sessions' = Collect(IF ~pauseRequested
                               THEN [generated EXCEPT ![target].status = "completed"]
                               ELSE generated,
                               currentSession, loops')
        /\ hist' = CollectHist(hist, currentSession, loops')
        /\ isProcessing' = FALSE
        /\ event' = IF ~pauseRequested THEN "run:completed" ELSE "run:paused"
        /\ UNCHANGED <<currentSession, pauseRequested, memoryCache, store>>

Next ==
    \/ (\E jsonData \in Trees, config \in Configs : startTranslation(jsonData, config)) /\ UNCHANGED <<rateVars, ttlVars, pureVars>>
    \/ (resumeTranslation) /\ UNCHANGED <<rateVars, ttlVars, pureVars>>
    \/ (pauseTranslation) /\ UNCHANGED <<rateVars, ttlVars, pureVars>>
    \/ (stopTranslation) /\ UNCHANGED <<rateVars, ttlVars, pureVars>>
    \/ (\E l \in DOMAIN loops : processBatches(l)) /\ UNCHANGED <<rateVars, ttlVars, pureVars>>
    \/ (\E l \in DOMAIN loops : processBatch(l)) /\ UNCHANGED <<rateVars, ttlVars, pureVars>>
    \/ (\E l \in DOMAIN loops, outcome \in IndexedDBOutcomes : cacheLookupReturned(l, outcome)) /\ UNCHANGED <<rateVars, ttlVars, pureVars>>
    \/ (\E l \in DOMAIN loops : slotGranted(l)) /\ UNCHANGED <<rateVars, ttlVars, pureVars>>
    \/ (\E l \in DOMAIN loops, response \in DetectResponses : detectReturned(l, response)) /\ UNCHANGED <<rateVars, ttlVars, pureVars>>
    \/ (\E l \in DOMAIN loops : translateSucceeded(l)) /\ UNCHANGED <<rateVars, ttlVars, pureVars>>
    \/ (\E l \in DOMAIN loops : translateFailed(l)) /\ UNCHANGED <<rateVars, ttlVars, pureVars>>
    \/ (\E l \in DOMAIN loops, outcome \in IndexedDBOutcomes : cacheSetReturned(l, outcome)) /\ UNCHANGED <<rateVars, ttlVars, pureVars>>
    \/ (\E l \in DOMAIN loops : backoffElapsed(l)) /\ UNCHANGED <<rateVars, ttlVars, pureVars>>
    \/ (\E l \in DOMAIN loops : jobDone(l)) /\ UNCHANGED <<rateVars, ttlVars, pureVars>>
    \/ (\E l \in DOMAIN loops : finishRun(l)) /\ UNCHANGED <<rateVars, ttlVars, pureVars>>

(***************************************************************************)
(* RateLimiterService (src/unnamed/part_001, lines 418-487)                *)
(* Time is counted in ticks of the clock; maxRequests, windowMs and the    *)
(* polling interval keep their roles at a small scale.                     *)
(***************************************************************************)

\* this.limiter.maxRequests
maxRequests == 2
\* this.limiter.windowMs
windowMs == 3
\* the longest delay checkSlot asks setTimeout for (1000 ms in the source)
pollMs == 2
\* the clock stops at MaxClock; at most MaxCalls calls of waitForSlot are made
MaxClock == 7
MaxCalls == 4

Min(a, b) == IF a <= b THEN a ELSE b
Max(a, b) == IF a >= b THEN a ELSE b
\* Math.min(...xs) of a non-empty sequence of numbers
MinOf(xs) == CHOOSE x \in {xs[i] : i \in DOMAIN xs} : \A i \in DOMAIN xs : x <= xs[i]

\* cleanupOldRequests dropping a timestamp one tick too early
cleanupOldRequestsEarly(now) ==
    SelectSeq(requests, LAMBDA timestamp : now - timestamp < windowMs - 1)

\* cleanupOldRequests: the timestamps younger than windowMs
cleanupOldRequests(now) ==
    SelectSeq(requests, LAMBDA timestamp : now - timestamp < windowMs)

\* checkSlot, with the timers that stay pending beside it: admit the caller,
\* or come back after the computed delay
checkSlot(pending) ==
    LET kept == cleanupOldRequests(clock)
    IN  IF Len(kept) < maxRequests
        THEN /\ requests' = Append(kept, clock)
             /\ admissions' = Append(admissions, clock)
             /\ timers' = pending
        ELSE LET oldestRequest == MinOf(kept)
                 waitTime == Max(0, (oldestRequest + windowMs) - clock)
             IN  /\ requests' = kept
                 /\ timers' = pending (+) SetToBag({clock + Min(waitTime, pollMs)})
                 /\ UNCHANGED admissions

\* a caller enters waitForSlot: checkSlot runs at once
waitForSlot ==
    /\ Len(admissions) + BagCardinality(timers) < MaxCalls
    /\ checkSlot(timers)
    /\ UNCHANGED <<clock, translates>>

\* a timer set by checkSlot fires, at its due time or later
timerFired ==
    \E due \in BagToSet(timers) :
        /\ due <= clock
        /\ checkSlot(timers (-) SetToBag({due}))
        /\ UNCHANGED <<clock, translates>>

\* time passes
tick ==
    /\ clock < MaxClock
    /\ clock' = clock + 1
    /\ UNCHANGED <<requests, timers, admissions, translates>>

(***************************************************************************)
(* CacheService: entries, expiry, the two tiers                             *)
(***************************************************************************)
\* NEXT_PUBLIC_CACHE_TTL, in ticks of the clock
ttl == 2
maxMemorySize == 1
\* the last instant of the cache's clock
MaxCacheClock == 4
\* the texts and source languages processJob asks the cache about
CacheTexts == {"Hello", "World"}
CacheSources == {"en"}

CacheEntry(text, sourceLanguage, targetLanguage, translatedText, timestamp) ==
    [text |-> text, sourceLanguage |-> sourceLanguage, targetLanguage |-> targetLanguage,
     translatedText |-> translatedText, timestamp |-> timestamp]

\* an entry that stays valid one tick too long
isValidEntryLate(entry, now) ==
    now - entry.timestamp <= ttl

\* isValidEntry, with Date.now() as now
isValidEntry(entry, now) ==
    now - entry.timestamp < ttl

\* Map.has, Map.get, Map.set and Map.delete on a map kept in insertion order
MapHas(m, key) == \E i \in DOMAIN m : m[i].key = key
MapGet(m, key) == m[CHOOSE i \in DOMAIN m : m[i].key = key].entry
MapSet(m, key, entry) ==
    IF MapHas(m, key)
    THEN [i \in DOMAIN m |-> IF m[i].key = key THEN [key |-> key, entry |-> entry] ELSE m[i]]
    ELSE Append(m, [key |-> key, entry |-> entry])
MapDelete(m, key) == SelectSeq(m, LAMBDA e : e.key # key)

\* addToMemoryCache that makes room by dropping the key inserted last
addToMemoryCacheDropNewest(m, key, entry, capacity) ==
    MapSet(IF Len(m) >= capacity THEN MapDelete(m, m[Len(m)].key) ELSE m, key, entry)

\* addToMemoryCache for a Map of the given capacity: when the Map is full the
\* first key of memoryCache.keys() is deleted, then the key is set
addToMemoryCacheUpTo(m, key, entry, capacity) ==
    MapSet(IF Len(m) >= capacity THEN MapDelete(m, m[1].key) ELSE m, key, entry)

\* addToMemoryCache: drop the oldest inserted key when full, then set
addToMemoryCache(m, key, entry) ==
    addToMemoryCacheUpTo(m, key, entry, maxMemorySize)

\* get, the memory tier alone (lines 39-42): the text of a valid entry, and
\* the Map as the lookup leaves it
memoryLookup(m, key, now) ==
    [value |-> IF MapHas(m, key) /\ isValidEntry(MapGet(m, key), now)
               THEN MapGet(m, key).translatedText ELSE Null,
     memory |-> m]

LatestOf(key) == IF key \in DOMAIN lastSet THEN lastSet[key] ELSE NoEntry
Resolved(caller, value, tier) ==
    [value |-> value, at |-> clock, tier |-> tier, text |-> caller.text,
     sourceLanguage |-> caller.sourceLanguage, latest |-> caller.latest]

\* get, up to its first await: the memory tier answers, or IndexedDB is asked
cacheGet(c, text, sourceLanguage) ==
    LET key == getCacheKey(text, sourceLanguage, TargetLanguage)
        caller == [pc |-> "get", text |-> text, sourceLanguage |-> sourceLanguage,
                   latest |-> LatestOf(key)]
    IN  /\ callers[c].pc = "idle"
        /\ IF MapHas(memoryEntries, key) /\ isValidEntry(MapGet(memoryEntries, key), clock)
           THEN /\ returned' = Resolved(caller, MapGet(memoryEntries, key).translatedText, "memory")
                /\ UNCHANGED <<callers, dbQueue>>
           ELSE /\ callers' = [callers EXCEPT ![c] = caller]
                /\ dbQueue' = Append(dbQueue, [op |-> "get", caller |-> c, key |-> key])
                /\ returned' = NoResult
        /\ UNCHANGED <<memoryEntries, dbEntries, lastSet, clock>>

\* get, request.onsuccess: a valid stored entry is promoted and returned
dbGetReturned ==
    /\ dbQueue # <<>>
    /\ Head(dbQueue).op = "get"
    /\ LET c == Head(dbQueue).caller
           key == Head(dbQueue).key
       IN  IF key \in DOMAIN dbEntries /\ isValidEntry(dbEntries[key], clock)
           THEN /\ memoryEntries' = addToMemoryCache(memoryEntries, key, dbEntries[key])
                /\ returned' = Resolved(callers[c], dbEntries[key].translatedText, "indexedDB")
                /\ callers' = [callers EXCEPT ![c] = [pc |-> "idle"]]
           ELSE /\ returned' = Resolved(callers[c], Null, "indexedDB")
                /\ callers' = [callers EXCEPT ![c].pc = "miss"]
                /\ UNCHANGED memoryEntries
    /\ dbQueue' = Tail(dbQueue)
    /\ UNCHANGED <<dbEntries, lastSet, clock>>

\* processJob after a miss and a translation: set, up to its first await
cacheSet(c) ==
    LET caller == callers[c]
        sourceLanguage == IF caller.sourceLanguage = "auto" THEN detectLanguage("en")
                          ELSE caller.sourceLanguage
        key == getCacheKey(caller.text, sourceLanguage, TargetLanguage)
        entry == CacheEntry(caller.text, sourceLanguage, TargetLanguage,
                            TranslationOf(caller.text), clock)
    IN  /\ caller.pc = "miss"
        /\ memoryEntries' = addToMemoryCache(memoryEntries, key, entry)
        /\ dbQueue' = Append(dbQueue, [op |-> "put", key |-> key, entry |-> entry])
        /\ lastSet' = (key :> entry) @@ lastSet
        /\ callers' = [callers EXCEPT ![c] = [pc |-> "idle"]]
        /\ returned' = NoResult
        /\ UNCHANGED <<dbEntries, clock>>

\* processJob after a miss and a failed translation: nothing is written
translationFailed(c) ==
    /\ callers[c].pc = "miss"
    /\ callers' = [callers EXCEPT ![c] = [pc |-> "idle"]]
    /\ returned' = NoResult
    /\ UNCHANGED <<memoryEntries, dbEntries, dbQueue, lastSet, clock>>

\* set, store.put
dbPut ==
    /\ dbQueue # <<>>
    /\ Head(dbQueue).op = "put"
    /\ dbEntries' = (Head(dbQueue).key :> Head(dbQueue).entry) @@ dbEntries
    /\ dbQueue' = Tail(dbQueue)
    /\ returned' = NoResult
    /\ UNCHANGED <<memoryEntries, callers, lastSet, clock>>

\* the loop over memoryCache.entries() that deletes entries one tick before
\* they expire
cleanMemoryCacheEarly(m, cutoff) ==
    SelectSeq(m, LAMBDA e : ~(e.entry.timestamp < cutoff + 2))

\* cleanupExpired, the loop over memoryCache.entries(): an entry whose
\* timestamp is below the cutoff is deleted
cleanMemoryCache(m, cutoff) ==
    SelectSeq(m, LAMBDA e : ~(e.entry.timestamp < cutoff))

\* cleanupExpired, up to its first await: the memory tier is swept
cleanupExpired ==
    LET cutoff == clock - ttl
    IN  /\ \A i \in DOMAIN dbQueue : dbQueue[i].op # "sweep"
        /\ memoryEntries' = cleanMemoryCache(memoryEntries, cutoff)
        /\ dbQueue' = Append(dbQueue, [op |-> "sweep", cutoff |-> cutoff])
        /\ returned' = NoResult
        /\ UNCHANGED <<dbEntries, callers, lastSet, clock>>

\* the object set() puts into the object store: { key, entry }
StoredRecord(key, entry) == [key |-> key, entry |-> entry]
\* createIndex('timestamp', 'timestamp'): the index holds the records that have
\* a property timestamp of their own, under its value
InTimestampIndex(record) == "timestamp" \in DOMAIN record

\* cleanupExpired, the cursor over IDBKeyRange.upperBound(cutoff) of the index
\* 'timestamp': every record the index holds under a key <= cutoff is deleted
dbSweep ==
    /\ dbQueue # <<>>
    /\ Head(dbQueue).op = "sweep"
    /\ dbEntries' = [key \in {k \in DOMAIN dbEntries :
                                 LET record == StoredRecord(k, dbEntries[k])
                                 IN  ~(/\ InTimestampIndex(record)
                                       /\ record.timestamp <= Head(dbQueue).cutoff)}
                        |-> dbEntries[key]]
    /\ dbQueue' = Tail(dbQueue)
    /\ returned' = NoResult
    /\ UNCHANGED <<memoryEntries, callers, lastSet, clock>>

(***************************************************************************)
(* JsonProcessor.generateDiff                                               *)
(***************************************************************************)
DiffRecord(path, original, translated, type) ==
    [path |-> path, original |-> original, translated |-> translated, type |-> type]

\* lodash isEqual that tells null from itself
isEqualNotNull(a, b) ==
    a = b /\ a.t # "null"

\* lodash isEqual on JSON values
isEqual(a, b) ==
    a = b

\* Object.keys / obj[key] / key in obj, for a plain object and for an array
\* taken as an object
EntriesOf(obj) ==
    IF obj.t = "arr" THEN [i \in 1..Len(obj.items) |-> KV(ToString(i - 1), obj.items[i])]
    ELSE obj.entries
HasKey(entries, key) == \E i \in DOMAIN entries : entries[i].k = key
ValueAt(entries, key) == entries[CHOOSE i \in DOMAIN entries : entries[i].k = key].v
\* new Set([...Object.keys(original), ...Object.keys(translated)]), in insertion order
AllKeys(a, b) ==
    [i \in DOMAIN a |-> a[i].k]
    \o [i \in DOMAIN SelectSeq(b, LAMBDA e : ~HasKey(a, e.k)) |->
            SelectSeq(b, LAMBDA e : ~HasKey(a, e.k))[i].k]

RECURSIVE generateDiff(_, _, _)
generateDiff(original, translated, path) ==
    IF original.t = "str" /\ translated.t = "str"
    THEN <<DiffRecord(path, original, translated,
                      IF original.s # translated.s THEN "changed" ELSE "unchanged")>>
    ELSE IF original.t = "arr" /\ translated.t = "arr"
    THEN LET maxLength == Max(Len(original.items), Len(translated.items))
             F(i) == LET currentPath == Append(path, ToString(i - 1))
                     IN  IF i > Len(original.items)
                         THEN <<DiffRecord(currentPath, Undefined, translated.items[i], "added")>>
                         ELSE IF i > Len(translated.items)
                         THEN <<DiffRecord(currentPath, original.items[i], Undefined, "removed")>>
                         ELSE generateDiff(original.items[i], translated.items[i], currentPath)
         IN  FlatMap(F, 1, maxLength)
    ELSE IF original.t \in {"arr", "obj"} /\ translated.t \in {"arr", "obj"}
    THEN LET a == EntriesOf(original)
             b == EntriesOf(translated)
             allKeys == AllKeys(a, b)
             F(i) == LET key == allKeys[i]
                         currentPath == Append(path, key)
                     IN  IF ~HasKey(a, key)
                         THEN <<DiffRecord(currentPath, Undefined, ValueAt(b, key), "added")>>
                         ELSE IF ~HasKey(b, key)
                         THEN <<DiffRecord(currentPath, ValueAt(a, key), Undefined, "removed")>>
                         ELSE generateDiff(ValueAt(a, key), ValueAt(b, key), currentPath)
         IN  FlatMap(F, 1, Len(allKeys))
    ELSE <<DiffRecord(path, original, translated,
                      IF ~isEqual(original, translated) THEN "changed" ELSE "unchanged")>>

(***************************************************************************)
(* JsonProcessor.createPatch                                                *)
(***************************************************************************)
\* obj[key] = value on a plain object: an existing key keeps its place, a new
\* key comes last
SetKey(obj, key, value) ==
    IF HasKey(obj.entries, key)
    THEN JObj([i \in DOMAIN obj.entries |->
                 IF obj.entries[i].k = key THEN KV(key, value) ELSE obj.entries[i]])
    ELSE JObj(Append(obj.entries, KV(key, value)))

\* setValueAtPath: every missing step becomes a plain object; with an empty
\* path the last key is path[-1], that is the property "undefined"
RECURSIVE setValueAtPath(_, _, _)
setValueAtPath(obj, path, value) ==
    IF Len(path) = 0 THEN SetKey(obj, "undefined", value)
    ELSE IF Len(path) = 1 THEN SetKey(obj, path[1], value)
    ELSE LET key == path[1]
             current == IF HasKey(obj.entries, key) THEN ValueAt(obj.entries, key)
                        ELSE JObj(<<>>)
         IN  SetKey(obj, key, setValueAtPath(current, Tail(path), value))

\* createPatchForPath, with the patch built so far; PatchEach is its forEach
\* over the entries of trans from position i on
RECURSIVE createPatchForPath(_, _, _, _)
RECURSIVE PatchEach(_, _, _, _, _)
createPatchForPath(orig, trans, path, patch) ==
    IF orig.t = "str" /\ trans.t = "str" /\ orig.s # trans.s
    THEN setValueAtPath(patch, path, trans)
    ELSE IF orig.t = "arr" /\ trans.t = "arr"
    THEN PatchEach([i \in 1..Min(Len(orig.items), Len(trans.items)) |->
                       KV(ToString(i - 1), orig.items[i])],
                   EntriesOf(trans), path, patch, 1)
    ELSE IF orig.t \in {"arr", "obj"} /\ trans.t \in {"arr", "obj"}
    THEN PatchEach(EntriesOf(orig), EntriesOf(trans), path, patch, 1)
    ELSE patch
PatchEach(origEntries, transEntries, path, patch, i) ==
    IF i > Len(transEntries) THEN patch
    ELSE LET key == transEntries[i].k
         IN  PatchEach(origEntries, transEntries, path,
                       IF HasKey(origEntries, key)
                       THEN createPatchForPath(ValueAt(origEntries, key), transEntries[i].v,
                                               Append(path, key), patch)
                       ELSE patch,
                       i + 1)
createPatch(original, translated) ==
    createPatchForPath(original, translated, <<>>, JObj(<<>>))

(***************************************************************************)
(* The pure functions under drawn arguments                                 *)
(***************************************************************************)
\* the number of items of an array drawn
MaxWidth == 2
PureLeaves == {JStr("Hello"), JStr("World"), JStr("42"), JNum(7), JNull, JBool(TRUE)}
TextLeaves == {JStr("Hello"), JStr("World")}
\* what an entry of a drawn object holds: a leaf, an object of one text, an
\* array of MaxWidth texts, an empty array, an empty object
PureValues ==
    PureLeaves
    \cup {JObj(<<KV("b", leaf)>>) : leaf \in TextLeaves}
    \cup {JArr(items) : items \in [1..MaxWidth -> TextLeaves]}
    \cup {JArr(<<>>), JObj(<<>>)}
\* the keys of a drawn object, in Object.entries order
PureKeys == {<<"a", "b">>, <<"a", "a.b">>, <<"a.b", "a">>}
PureTrees ==
    PureValues
    \cup UNION {{JObj([i \in DOMAIN keys |-> KV(keys[i], values[i])]) :
                     values \in [DOMAIN keys -> PureValues]} : keys \in PureKeys}
\* (text, sourceLanguage, targetLanguage) arguments of getCacheKey
KeyTriples == {"Hello", "Hello-en"} \X {"en", "US", "en-US"} \X {"fr", "vi"}

\* the Map that generateFinalResult builds from occurrences and their texts:
\* pathKey = path.join('.'), a later set of the same key wins
pathKeyMap(entries) ==
    [pathKey \in {JoinPath(entries[i].path) : i \in DOMAIN entries} |->
        LET last == CHOOSE i \in DOMAIN entries :
                       /\ JoinPath(entries[i].path) = pathKey
                       /\ \A j \in DOMAIN entries :
                             JoinPath(entries[j].path) = pathKey => j <= i
        IN  entries[last].text]
\* the occurrences picked by a set of indices, each with its translation
PickedEntries(strings, picked) ==
    LET chosen == SelectSeq([i \in DOMAIN strings |->
                                [index |-> i, path |-> strings[i].path,
                                 text |-> TranslationOf(strings[i].value)]],
                            LAMBDA e : e.index \in picked)
    IN  [i \in DOMAIN chosen |-> [path |-> chosen[i].path, text |-> chosen[i].text]]
\* every occurrence with its own original value
IdentityEntries(strings) ==
    [i \in DOMAIN strings |-> [path |-> strings[i].path, text |-> strings[i].value]]

TreeArgs == {[kind |-> "tree", tree |-> tree] : tree \in PureTrees}
ApplyArgs ==
    UNION {{[kind |-> "apply", tree |-> tree,
             entries |-> PickedEntries(extractStrings(tree, <<>>), picked)] :
               picked \in SUBSET (1..Len(extractStrings(tree, <<>>)))} :
           tree \in PureTrees}
TripleArgs ==
    {[kind |-> "triples", a |-> a, b |-> b] : a \in KeyTriples, b \in KeyTriples}
\* the trees createPatch is given: the values above, the tree of the
\* service inputs, its translation, a translated text and another number
PatchTrees ==
    PureValues
    \cup {TreeHello, applyTranslations(TreeHello, pathKeyMap(PickedEntries(
              extractStrings(TreeHello, <<>>), 1..Len(extractStrings(TreeHello, <<>>))))),
          JStr("Bonjour"), JNum(8), JObj(<<KV("b", JNum(8))>>)}
\* translated has no key, index or path that original lacks
RECURSIVE PathsWithin(_, _)
PathsWithin(translated, original) ==
    CASE translated.t = "obj" ->
           /\ original.t = "obj"
           /\ \A i \in DOMAIN translated.entries :
                 /\ HasKey(original.entries, translated.entries[i].k)
                 /\ PathsWithin(translated.entries[i].v,
                                ValueAt(original.entries, translated.entries[i].k))
      [] translated.t = "arr" ->
           /\ original.t = "arr"
           /\ Len(translated.items) <= Len(original.items)
           /\ \A i \in DOMAIN translated.items :
                 PathsWithin(translated.items[i], original.items[i])
      [] OTHER -> TRUE
PatchArgs ==
    UNION {{[kind |-> "patch", original |-> original, translated |-> translated] :
               translated \in {t \in PatchTrees : PathsWithin(t, original)}} :
           original \in PatchTrees}
\* the documents whose unique strings createBatches is given: none, one, two
\* (one of them twice), three and four of them
BatchTrees ==
    {JArr(<<>>), JStr("Hello"), TreeHello,
     JArr(<<JStr("Hello"), JStr("World"), JStr("Hello"), JStr("Bonjour")>>),
     JObj(<<KV("a", JStr("World")), KV("b", JArr(<<JStr("Hello"), JStr("Monde")>>)),
            KV("c", JStr("Bonjour"))>>)}
BatchArgs ==
    {[kind |-> "batches",
      strings |-> deduplicateStrings(extractStrings(tree, <<>>)),
      batchSize |-> batchSize,
      session |-> [sourceLanguage |-> sourceLanguage, targetLanguage |-> TargetLanguage]] :
        tree \in BatchTrees, batchSize \in 1..MaxBatchSize + 1,
        sourceLanguage \in {"en", "auto"}}
\* sequences of set and get on a memory tier of MemoryCapacity entries
MemoryCapacity == 2
MaxMemoryOps == 4
MemoryTexts == {"Hello", "World", "Bonjour"}
MemoryOps == {[op |-> op, text |-> text] : op \in {"set", "get"}, text \in MemoryTexts}
MemoryArgs ==
    UNION {{[kind |-> "memory", ops |-> ops] : ops \in [1..n -> MemoryOps]} :
               n \in 1..MaxMemoryOps}
\* the memory tier after each of the operations ops[i], ops[i + 1], ..., the
\* i-th at instant i
RECURSIVE runMemoryOps(_, _, _)
runMemoryOps(ops, i, m) ==
    IF i > Len(ops) THEN <<>>
    ELSE LET key == getCacheKey(ops[i].text, "en", TargetLanguage)
             after == IF ops[i].op = "set"
                      THEN addToMemoryCacheUpTo(m, key,
                               CacheEntry(ops[i].text, "en", TargetLanguage,
                                          TranslationOf(ops[i].text), i),
                               MemoryCapacity)
                      ELSE memoryLookup(m, key, i).memory
         IN  <<after>> \o runMemoryOps(ops, i + 1, after)
\* the nodes generateDiff is given side by side: scalars, arrays and objects,
\* at the root and under a key
DiffNodes ==
    {JStr("Hello"), JNum(7), JNull, JArr(<<>>), JArr(<<JStr("Hello")>>), JObj(<<>>),
     JObj(<<KV("0", JStr("Hello"))>>), JObj(<<KV("b", JStr("Hello"))>>)}
DiffArgs ==
    {[kind |-> "diff", original |-> original, translated |-> translated, path |-> <<>>] :
        original \in DiffNodes, translated \in DiffNodes}
    \cup {[kind |-> "diff", original |-> JObj(<<KV("a", original)>>),
           translated |-> JObj(<<KV("a", translated)>>), path |-> <<"a">>] :
             original \in DiffNodes, translated \in DiffNodes}
\* texts with placeholder-like tokens, from none to the whole text
PlaceholderTexts ==
    {"Hello there", "Hi {0}", "Hi {n}", "{0} ab", "a {0} {1}", "Hi {name} ok",
     "{{name}} hello", "{{n}} {{m}}", "%s% ab", "%name% is", "${x} abcd", "${x} ${y} a",
     "$user hi!", "{a} {b}", "Dear {first} {last}, hello"}
TextArgs == {[kind |-> "text", text |-> text] : text \in PlaceholderTexts}
PureArgs ==
    TreeArgs \cup ApplyArgs \cup TripleArgs \cup PatchArgs \cup BatchArgs \cup MemoryArgs
    \cup DiffArgs \cup TextArgs

PureInit ==
    /\ ServicesInit
    /\ arg \in PureArgs
    /\ result = NoOutput

callGetCacheKey ==
    /\ arg.kind = "triples"
    /\ result' = [op |-> "getCacheKey",
                  a |-> getCacheKey(arg.a[1], arg.a[2], arg.a[3]),
                  b |-> getCacheKey(arg.b[1], arg.b[2], arg.b[3])]
    /\ UNCHANGED arg

callApplyTranslations ==
    /\ arg.kind = "apply"
    /\ result' = [op |-> "applyTranslations",
                  value |-> applyTranslations(arg.tree, pathKeyMap(arg.entries))]
    /\ UNCHANGED arg

\* extractStrings, then applyTranslations with every occurrence path mapped
\* to its own value
callExtractThenApply ==
    /\ arg.kind = "tree"
    /\ result' = [op |-> "extractThenApply",
                  value |-> applyTranslations(
                                arg.tree,
                                pathKeyMap(IdentityEntries(extractStrings(arg.tree, <<>>))))]
    /\ UNCHANGED arg

callDeduplicateStrings ==
    /\ arg.kind = "tree"
    /\ result' = [op |-> "deduplicateStrings",
                  strings |-> extractStrings(arg.tree, <<>>),
                  unique |-> deduplicateStrings(extractStrings(arg.tree, <<>>))]
    /\ UNCHANGED arg

callGenerateDiff ==
    /\ arg.kind = "tree"
    /\ result' = [op |-> "generateDiff", value |-> generateDiff(arg.tree, arg.tree, <<>>)]
    /\ UNCHANGED arg

callCreatePatch ==
    /\ arg.kind = "patch"
    /\ result' = [op |-> "createPatch", value |-> createPatch(arg.original, arg.translated)]
    /\ UNCHANGED arg

(***************************************************************************)
(* Specifications                                                          *)
(***************************************************************************)
\* the translation service, with the rate limiter at rest
Spec == Init /\ [][Next]_<<vars, rateVars, ttlVars, pureVars>>

\* The scheduling the code justifies for an activation l: a synchronous stretch
\* runs to completion, an IndexedDB request calls back, waitForSlot polls until
\* a slot is free, the backoff timer fires, and the translate request ends by
\* its answer or by its timeout of 30000 ms (libreTranslateService.ts, line 48).
\* The detect request is posted without a timeout (lines 62-65): nothing
\* obliges it to end. Nothing obliges the user to act either.
allVars == <<vars, rateVars, ttlVars, pureVars>>
otherVars == <<rateVars, ttlVars, pureVars>>
LoopFairness(l) ==
    /\ WF_allVars(l \in DOMAIN loops /\ processBatches(l) /\ UNCHANGED otherVars)
    /\ WF_allVars(l \in DOMAIN loops /\ processBatch(l) /\ UNCHANGED otherVars)
    /\ WF_allVars(/\ l \in DOMAIN loops
                  /\ \E outcome \in IndexedDBOutcomes : cacheLookupReturned(l, outcome)
                  /\ UNCHANGED otherVars)
    /\ WF_allVars(l \in DOMAIN loops /\ slotGranted(l) /\ UNCHANGED otherVars)
    /\ WF_allVars(l \in DOMAIN loops /\ (translateSucceeded(l) \/ translateFailed(l)) /\ UNCHANGED otherVars)
    /\ WF_allVars(/\ l \in DOMAIN loops
                  /\ \E outcome \in IndexedDBOutcomes : cacheSetReturned(l, outcome)
                  /\ UNCHANGED otherVars)
    /\ WF_allVars(l \in DOMAIN loops /\ backoffElapsed(l) /\ UNCHANGED otherVars)
    /\ WF_allVars(l \in DOMAIN loops /\ jobDone(l) /\ UNCHANGED otherVars)
    /\ WF_allVars(l \in DOMAIN loops /\ finishRun(l) /\ UNCHANGED otherVars)
LiveSpec == Init /\ [][Next]_allVars /\ \A l \in 1..MaxLoops : LoopFairness(l)
\* LiveSpec with a detect request that is obliged to end as well
DetectEndsSpec ==
    /\ LiveSpec
    /\ \A l \in 1..MaxLoops :
           WF_allVars(/\ l \in DOMAIN loops
                      /\ \E response \in DetectResponses : detectReturned(l, response)
                      /\ UNCHANGED otherVars)

\* the source language processJob hands to translate and to cacheService.set
\* for a job: job.sourceLanguage, or what detectLanguage returns for 'auto'
EffectiveSources(sourceLanguage) ==
    IF sourceLanguage = "auto" THEN {detectLanguage(r) : r \in DetectResponses}
    ELSE {sourceLanguage}
\* the object store as the completed jobs of a run over tree leave it, their
\* effective source language being sourceLanguage
StoreLeftBy(tree, sourceLanguage) ==
    LET texts == {UniqueStrings[tree][i].value : i \in DOMAIN UniqueStrings[tree]}
        keyOf(text) == getCacheKey(text, sourceLanguage, TargetLanguage)
    IN  [key \in {keyOf(text) : text \in texts} |->
            TranslationOf(CHOOSE text \in texts : keyOf(text) = key)]
\* a page that is loaded after an earlier one has translated TreeHello: the
\* services are as constructed, the IndexedDB object store has kept the
\* entries the earlier jobs wrote
ReuseInit ==
    /\ currentSession = 0
    /\ isProcessing = FALSE
    /\ pauseRequested = FALSE
    /\ sessions = <<>>
    /\ loops = <<>>
    /\ memoryCache = [k \in {} |-> ""]
    /\ \E sourceLanguage \in UNION {EffectiveSources(c.sourceLanguage) : c \in Configs} :
           store = StoreLeftBy(TreeHello, sourceLanguage)
    /\ event = "init"
    /\ hist = <<>>
    /\ clock = 0
    /\ requests = <<>>
    /\ timers = EmptyBag
    /\ admissions = <<>>
    /\ translates = <<>>
    /\ memoryEntries = <<>>
    /\ dbEntries = <<>>
    /\ dbQueue = <<>>
    /\ callers = [c \in 1..MaxActive |-> [pc |-> "idle"]]
    /\ lastSet = <<>>
    /\ returned = NoResult
    /\ arg = NoArg
    /\ result = NoOutput
\* one run that nobody pauses, stops or resumes
ReuseNext ==
    \/ (\E jsonData \in Trees, config \in Configs : startTranslation(jsonData, config)) /\ UNCHANGED otherVars
    \/ (\E l \in DOMAIN loops : processBatches(l)) /\ UNCHANGED otherVars
    \/ (\E l \in DOMAIN loops : processBatch(l)) /\ UNCHANGED otherVars
    \/ (\E l \in DOMAIN loops, outcome \in IndexedDBOutcomes : cacheLookupReturned(l, outcome)) /\ UNCHANGED otherVars
    \/ (\E l \in DOMAIN loops : slotGranted(l)) /\ UNCHANGED otherVars
    \/ (\E l \in DOMAIN loops, response \in DetectResponses : detectReturned(l, response)) /\ UNCHANGED otherVars
    \/ (\E l \in DOMAIN loops : translateSucceeded(l)) /\ UNCHANGED otherVars
    \/ (\E l \in DOMAIN loops : translateFailed(l)) /\ UNCHANGED otherVars
    \/ (\E l \in DOMAIN loops, outcome \in IndexedDBOutcomes : cacheSetReturned(l, outcome)) /\ UNCHANGED otherVars
    \/ (\E l \in DOMAIN loops : backoffElapsed(l)) /\ UNCHANGED otherVars
    \/ (\E l \in DOMAIN loops : jobDone(l)) /\ UNCHANGED otherVars
    \/ (\E l \in DOMAIN loops : finishRun(l)) /\ UNCHANGED otherVars
ReuseSpec == ReuseInit /\ [][ReuseNext]_allVars

\* One run with its calls of waitForSlot served by the rate limiter, on the
\* limiter's clock. processJob calls waitForSlot when the cache lookup has
\* missed, and checkSlot runs at once.
lookupThenWaitForSlot(l, outcome) ==
    /\ cacheLookupReturned(l, outcome)
    /\ IF loops'[l].pc = "rateWait"
       THEN checkSlot(timers)
       ELSE UNCHANGED <<requests, timers, admissions>>
    /\ UNCHANGED <<clock, translates>>
\* processJob goes on after waitForSlot has resolved; with a sourceLanguage
\* other than 'auto' the translate call is issued now
slotGrantedNow(l) ==
    /\ timers = EmptyBag
    /\ slotGranted(l)
    /\ translates' = IF loops'[l].pc = "translateWait"
                     THEN Append(translates, clock) ELSE translates
    /\ UNCHANGED <<clock, requests, timers, admissions>>
\* detectLanguage has returned, after whatever time it took: the translate call
\* is issued now
detectReturnedNow(l, response) ==
    /\ detectReturned(l, response)
    /\ translates' = Append(translates, clock)
    /\ UNCHANGED <<clock, requests, timers, admissions>>
\* time passes while no activation has a continuation ready to run
tickBetweenTasks ==
    /\ \A l \in DOMAIN loops :
           /\ loops[l].pc \in Waiting \cup {"done"}
           /\ loops[l].pc = "rateWait" => timers # EmptyBag
    /\ tick
PacedNext ==
    \/ (\E jsonData \in Trees, config \in Configs : startTranslation(jsonData, config)) /\ UNCHANGED otherVars
    \/ (\E l \in DOMAIN loops : processBatches(l)) /\ UNCHANGED otherVars
    \/ (\E l \in DOMAIN loops : processBatch(l)) /\ UNCHANGED otherVars
    \/ (\E l \in DOMAIN loops, outcome \in IndexedDBOutcomes : lookupThenWaitForSlot(l, outcome)) /\ UNCHANGED <<ttlVars, pureVars>>
    \/ (timerFired) /\ UNCHANGED <<vars, ttlVars, pureVars>>
    \/ (\E l \in DOMAIN loops : slotGrantedNow(l)) /\ UNCHANGED <<ttlVars, pureVars>>
    \/ (\E l \in DOMAIN loops, response \in DetectResponses : detectReturnedNow(l, response)) /\ UNCHANGED <<ttlVars, pureVars>>
    \/ (\E l \in DOMAIN loops : translateSucceeded(l)) /\ UNCHANGED otherVars
    \/ (\E l \in DOMAIN loops : translateFailed(l)) /\ UNCHANGED otherVars
    \/ (\E l \in DOMAIN loops, outcome \in IndexedDBOutcomes : cacheSetReturned(l, outcome)) /\ UNCHANGED otherVars
    \/ (\E l \in DOMAIN loops : backoffElapsed(l)) /\ UNCHANGED otherVars
    \/ (\E l \in DOMAIN loops : jobDone(l)) /\ UNCHANGED otherVars
    \/ (\E l \in DOMAIN loops : finishRun(l)) /\ UNCHANGED otherVars
    \/ (tickBetweenTasks) /\ UNCHANGED <<vars, ttlVars, pureVars>>
PacedSpec == Init /\ [][PacedNext]_allVars

\* the rate limiter, with the translation service at rest
RateNext ==
    \/ waitForSlot /\ UNCHANGED <<vars, ttlVars, pureVars>>
    \/ timerFired /\ UNCHANGED <<vars, ttlVars, pureVars>>
    \/ tick /\ UNCHANGED <<vars, ttlVars, pureVars>>
RateSpec == Init /\ [][RateNext]_<<vars, rateVars, ttlVars, pureVars>>

\* the cache and the clock, with the translation service at rest
CacheNext ==
    \/ (\E c \in 1..MaxActive, text \in CacheTexts, sourceLanguage \in CacheSources :
            cacheGet(c, text, sourceLanguage)) /\ UNCHANGED <<vars, requests, timers, admissions, translates, pureVars>>
    \/ dbGetReturned /\ UNCHANGED <<vars, requests, timers, admissions, translates, pureVars>>
    \/ (\E c \in 1..MaxActive : cacheSet(c)) /\ UNCHANGED <<vars, requests, timers, admissions, translates, pureVars>>
    \/ (\E c \in 1..MaxActive : translationFailed(c)) /\ UNCHANGED <<vars, requests, timers, admissions, translates, pureVars>>
    \/ dbPut /\ UNCHANGED <<vars, requests, timers, admissions, translates, pureVars>>
    \/ cleanupExpired /\ UNCHANGED <<vars, requests, timers, admissions, translates, pureVars>>
    \/ dbSweep /\ UNCHANGED <<vars, requests, timers, admissions, translates, pureVars>>
    \/ tick /\ clock < MaxCacheClock /\ returned' = NoResult
            /\ UNCHANGED <<vars, memoryEntries, dbEntries, dbQueue, callers, lastSet, pureVars>>
CacheSpec == Init /\ [][CacheNext]_<<vars, rateVars, ttlVars, pureVars>>

\* the pure functions, with every service at rest
callCreateBatches ==
    /\ arg.kind = "batches"
    /\ result' = [op |-> "createBatches",
                  value |-> createBatches(arg.strings, arg.batchSize, arg.session)]
    /\ UNCHANGED arg

callMemoryOps ==
    /\ arg.kind = "memory"
    /\ result' = [op |-> "memoryCache", maps |-> runMemoryOps(arg.ops, 1, <<>>)]
    /\ UNCHANGED arg

callShouldTranslate ==
    /\ arg.kind = "text"
    /\ result' = [op |-> "shouldTranslate",
                  value |-> shouldTranslate(arg.text),
                  matchedLength |-> matchedLength(arg.text)]
    /\ UNCHANGED arg

callGenerateDiffOfTwo ==
    /\ arg.kind = "diff"
    /\ result' = [op |-> "generateDiffOfTwo",
                  value |-> generateDiff(arg.original, arg.translated, <<>>)]
    /\ UNCHANGED arg

PureNext ==
    \/ callGetCacheKey /\ UNCHANGED <<vars, rateVars, ttlVars>>
    \/ callApplyTranslations /\ UNCHANGED <<vars, rateVars, ttlVars>>
    \/ callExtractThenApply /\ UNCHANGED <<vars, rateVars, ttlVars>>
    \/ callDeduplicateStrings /\ UNCHANGED <<vars, rateVars, ttlVars>>
    \/ callGenerateDiff /\ UNCHANGED <<vars, rateVars, ttlVars>>
    \/ callCreatePatch /\ UNCHANGED <<vars, rateVars, ttlVars>>
    \/ callCreateBatches /\ UNCHANGED <<vars, rateVars, ttlVars>>
    \/ callMemoryOps /\ UNCHANGED <<vars, rateVars, ttlVars>>
    \/ callGenerateDiffOfTwo /\ UNCHANGED <<vars, rateVars, ttlVars>>
    \/ callShouldTranslate /\ UNCHANGED <<vars, rateVars, ttlVars>>
PureSpec == PureInit /\ [][PureNext]_<<vars, rateVars, ttlVars, pureVars>>

(***************************************************************************)
(* Properties                                                              *)
(***************************************************************************)
\* the jobs of a session, as <<batch, position>> pairs
JobSlots(sid) ==
    {x \in (DOMAIN sessions[sid].batches) \X (1..MaxBatchSize + 1) :
        x[2] \in DOMAIN sessions[sid].batches[x[1]].jobs}
JobAt(sid, x) == sessions[sid].batches[x[1]].jobs[x[2]]
\* the activations working on session sid
LoopsOn(sid) == {l \in ActiveLoops : loops[l].sid = sid}
\* the session has reached status completed and no activation works on it
Ended(sid) == sessions[sid].status = "completed" /\ LoopsOn(sid) = {}

\* C1: at most one processing loop (processBatches) is active at any time,
\* whatever the interleaving of start, resume, pause and stop with the
\* suspension points of a running loop.
C1_AtMostOneLoop == Cardinality(ActiveLoops) <= 1

\* C2: at most one Job has status translating, and at most one backend call
\* (detectLanguage or translate) is outstanding.
C2_AtMostOneTranslating ==
    /\ Cardinality({x \in UNION {{<<sid, y>> : y \in JobSlots(sid)} : sid \in LiveSessions} :
                       JobAt(x[1], x[2]).status = "translating"}) <= 1
    /\ Cardinality({l \in DOMAIN loops : loops[l].pc \in {"detectWait", "translateWait"}}) <= 1

C4_CallsEqualDistinctValues ==
    \A sid \in LiveSessions :
        (Ended(sid) /\ hist[sid].emptyCache /\ hist[sid].failedTexts = {})
            => hist[sid].translateCalls = Len(UniqueStrings[sessions[sid].originalJson])

\* The tree the finalization is meant to produce: every occurrence of a unique
\* string whose own job (the job created for it, in discovery order) is
\* completed carries that job's translatedText, every other leaf is unchanged.
RECURSIVE withOwnTranslations(_, _, _, _)
withOwnTranslations(obj, path, jobs, tree) ==
    CASE obj.t = "str" ->
           LET owners == {u \in DOMAIN UniqueStrings[tree] :
                            \E n \in DOMAIN UniqueStrings[tree][u].originalIndices :
                               ExtractedStrings[tree][UniqueStrings[tree][u]
                                                        .originalIndices[n]].path = path}
           IN  IF \E u \in owners : u \in DOMAIN jobs /\ jobs[u].status = "completed"
               THEN JStr(jobs[CHOOSE u \in owners : TRUE].translatedText)
               ELSE obj
      [] obj.t = "arr" ->
           JArr([i \in 1..Len(obj.items) |->
                   withOwnTranslations(obj.items[i], Append(path, ToString(i - 1)), jobs, tree)])
      [] obj.t = "obj" ->
           JObj([i \in 1..Len(obj.entries) |->
                   KV(obj.entries[i].k,
                      withOwnTranslations(obj.entries[i].v,
                                          Append(path, obj.entries[i].k), jobs, tree))])
      [] OTHER -> obj
ExpectedJson(session) ==
    withOwnTranslations(session.originalJson, <<>>, AllJobs(session.batches, 1),
                        session.originalJson)

\* C5: when a session completes, translatedJson holds, at every occurrence of
\* a unique string whose own Job is completed, that Job's translatedText, and
\* the original value at every other leaf.
C5_FinalResultFollowsOwnJob ==
    \A sid \in LiveSessions :
        Ended(sid) => sessions[sid].translatedJson = ExpectedJson(sessions[sid])

\* what an uninterrupted run yields for the session's tree when the backend
\* fails exactly the texts in failing: those jobs end in error, the others
\* completed, and the final result is generated from them
UninterruptedJson(session, failing) ==
    generateFinalResult(
        [session EXCEPT !.batches =
            [b \in DOMAIN session.batches |->
                [session.batches[b] EXCEPT !.jobs =
                    [j \in DOMAIN session.batches[b].jobs |->
                        LET job == session.batches[b].jobs[j]
                        IN  IF job.originalText \in failing
                            THEN [job EXCEPT !.status = "error"]
                            ELSE [job EXCEPT !.status = "completed",
                                             !.translatedText =
                                                 TranslationOf(job.originalText)]]]]]
    ).translatedJson

\* an activation issues a translate call in this step
IssuesTranslate(l) ==
    /\ l \in DOMAIN loops
    /\ loops[l].pc # "translateWait"
    /\ loops'[l].pc = "translateWait"

\* C6: after a pause and a resume no translate call is issued for a Job that
\* was completed when the session was paused, and when the session has ended
\* its translatedJson is the one of an uninterrupted run on the same tree
\* with the same deterministic backend.
C6_ResumeKeepsCompletedJobs ==
    /\ [][\A l \in DOMAIN loops :
            IssuesTranslate(l)
                => <<loops[l].bi, loops[l].pending[loops[l].pi]>>
                      \notin hist[loops[l].sid].keptDone]_vars
    /\ [](\A sid \in LiveSessions :
            (/\ Ended(sid)
             /\ hist[sid].resumed
             /\ hist[sid].okTexts \cap hist[sid].failedTexts = {})
                => sessions[sid].translatedJson =
                       UninterruptedJson(sessions[sid], hist[sid].failedTexts))
\* a session that was paused with a completed job, resumed, and has ended
C6_Witness ==
    \E sid \in LiveSessions :
        /\ Ended(sid)
        /\ hist[sid].resumed
        /\ hist[sid].keptDone # {}
        /\ Len(sessions[sid].batches) = 2

\* the translate call of activation l fails in this step
FailsIn(l) ==
    /\ event' = "translate:failed"
    /\ loops[l].pc = "translateWait"
    /\ loops'[l].pc # "translateWait"
\* the job activation l is working on, after the step
JobOfNext(L) == sessions'[L.sid].batches[L.bi].jobs[L.pending[L.pi]]

\* C7: each failure of a Job's processing adds one to its retryCount; the Job
\* is re-attempted (after the backoff) iff the new retryCount is at most
\* maxRetries and is marked error, with the message, iff it exceeds maxRetries;
\* a Job turns to error in no other way, and in one pass an activation makes at
\* most maxRetries + 1 attempts at a Job.
C7_RetryBudget ==
    /\ [][\A l \in DOMAIN loops :
            FailsIn(l) =>
                LET L == loops[l]
                    job == JobOf(L)
                    after == JobOfNext(L)
                IN  /\ after.retryCount = job.retryCount + 1
                    /\ (loops'[l].pc = "backoff") <=> (after.retryCount <= L.maxRetries)
                    /\ (loops'[l].pc = "jobDone") <=> (after.retryCount > L.maxRetries)
                    /\ after.retryCount <= L.maxRetries
                          => after = [job EXCEPT !.retryCount = @ + 1]
                    /\ after.retryCount > L.maxRetries
                          => /\ after.status = "error"
                             /\ after.error = "Translation failed"]_vars
    /\ [][\A sid \in LiveSessions : \A x \in JobSlots(sid) :
            (/\ sessions'[sid].status # "collected"
             /\ JobAt(sid, x).status # "error"
             /\ sessions'[sid].batches[x[1]].jobs[x[2]].status = "error")
                => \E l \in DOMAIN loops :
                      /\ FailsIn(l)
                      /\ loops[l].sid = sid
                      /\ <<loops[l].bi, loops[l].pending[loops[l].pi]>> = x
                      /\ JobOfNext(loops[l]).retryCount > loops[l].maxRetries]_vars
    /\ [](\A l \in DOMAIN loops : loops[l].attempts <= loops[l].maxRetries + 1)
\* an activation has used its whole budget of maxRetries + 1 > 1 attempts on a
\* Job, which is now in error
C7_Witness ==
    \E l \in DOMAIN loops :
        /\ loops[l].pc = "jobDone"
        /\ loops[l].maxRetries >= 1
        /\ loops[l].attempts = loops[l].maxRetries + 1
        /\ JobOf(loops[l]).status = "error"
        /\ JobOf(loops[l]).retryCount = loops[l].maxRetries + 1

\* C8: once a Job is completed, its status and its translatedText never change
\* again while its session lives, whatever pause, stop, resume and start calls
\* are made.
C8_CompletedJobsAreFinal ==
    [][\A sid \in LiveSessions : \A x \in JobSlots(sid) :
            (sessions'[sid].status # "collected" /\ JobAt(sid, x).status = "completed")
                => /\ sessions'[sid].batches[x[1]].jobs[x[2]].status = "completed"
                   /\ sessions'[sid].batches[x[1]].jobs[x[2]].translatedText =
                          JobAt(sid, x).translatedText]_vars

\* C9: a Job that ends in error does not abort the run: the activation goes on
\* with the next Job, and a session that has ended with status completed has
\* every Job completed or in error, every Batch completed, and errorStrings
\* (translatedStrings) equal to the number of its Jobs in error (completed).
C9_ErrorJobDoesNotAbort ==
    /\ [][\A l \in DOMAIN loops :
            (FailsIn(l) /\ JobOfNext(loops[l]).retryCount > loops[l].maxRetries)
                => /\ JobOfNext(loops[l]).status = "error"
                   /\ loops'[l].pc = "jobDone"
                   /\ sessions'[loops[l].sid].status = sessions[loops[l].sid].status]_vars
    /\ [](\A sid \in LiveSessions :
            Ended(sid) =>
                /\ \A x \in JobSlots(sid) : JobAt(sid, x).status \in {"completed", "error"}
                /\ \A b \in DOMAIN sessions[sid].batches :
                      sessions[sid].batches[b].status = "completed"
                /\ sessions[sid].errorStrings = CountJobs(sessions[sid].batches, "error")
                /\ sessions[sid].translatedStrings =
                       CountJobs(sessions[sid].batches, "completed"))
\* a session has ended completed although its first Job is in error: the Jobs
\* after it were processed and errorStrings is not zero
C9_Witness ==
    \E sid \in LiveSessions :
        /\ Ended(sid)
        /\ Len(AllJobs(sessions[sid].batches, 1)) = 2
        /\ AllJobs(sessions[sid].batches, 1)[1].status = "error"
        /\ AllJobs(sessions[sid].batches, 1)[2].status = "completed"
        /\ sessions[sid].errorStrings = 1

\* C10: a stopTranslation call, and a pauseTranslation call made while
\* isProcessing is set, requests the pause and leaves the current session
\* paused; from then until a start or a resume is accepted the session stays
\* paused, no Job goes from pending or error to translating, the only Jobs
\* whose status changes are Jobs an activation already has in flight, and no
\* Batch becomes completed.
C10_PauseStopsDispatch ==
    /\ [][(event' = "stop" \/ (event' = "pause" /\ isProcessing))
            => /\ pauseRequested'
               /\ currentSession # 0 => sessions'[currentSession].status = "paused"]_vars
    /\ [](pauseRequested /\ currentSession # 0
            => sessions[currentSession].status = "paused")
    /\ [][pauseRequested =>
            \A sid \in LiveSessions :
                sessions'[sid].status # "collected" =>
                    /\ \A x \in JobSlots(sid) :
                          LET after == sessions'[sid].batches[x[1]].jobs[x[2]]
                          IN  /\ JobAt(sid, x).status \in {"pending", "error"}
                                    => after.status # "translating"
                              /\ after.status # JobAt(sid, x).status
                                    => \E l \in LoopsOn(sid) :
                                          /\ loops[l].pc \in Waiting
                                          /\ <<loops[l].bi, loops[l].pending[loops[l].pi]>> = x
                    /\ \A b \in DOMAIN sessions[sid].batches :
                          sessions[sid].batches[b].status # "completed"
                              => sessions'[sid].batches[b].status # "completed"]_vars
\* a pause is requested while an activation still has a Job in flight and
\* another Job of the same Batch has not been started
C10_Witness ==
    /\ pauseRequested
    /\ \E l \in DOMAIN loops :
          /\ loops[l].pc = "translateWait"
          /\ loops[l].pi < Len(loops[l].pending)
          /\ JobOf(loops[l]).status = "translating"
          /\ sessions[loops[l].sid].batches[loops[l].bi]
                 .jobs[loops[l].pending[loops[l].pi + 1]].status = "pending"

C12_ErrorJobsRetriedOnResume ==
    \A sid \in LiveSessions :
        (Ended(sid) /\ hist[sid].resumed) => hist[sid].retryDue = {}

\* the progress counters of a session agree with the statuses of its Jobs
CountsAgree(S) ==
    /\ S.translatedStrings = CountJobs(S.batches, "completed")
    /\ S.skippedStrings = CountJobs(S.batches, "skipped")
    /\ S.errorStrings = CountJobs(S.batches, "error")

\* C13: when processJob has returned for a Job (the Job reached completed or
\* error) and processBatch goes on, translatedStrings, skippedStrings and
\* errorStrings of the session equal the numbers of its Jobs that are
\* completed, skipped and in error.
C13_CountersFollowEachJob ==
    [][\A l \in DOMAIN loops :
          (loops[l].pc = "jobDone" /\ loops'[l].pc = "jobs")
              => CountsAgree(sessions'[loops[l].sid])]_vars


\* ---------------------------------------------------------------------------
\* C14: in every trailing window of windowMs the rate limiter admits at most
\* maxRequests callers: the admission that follows maxRequests admissions
\* comes no earlier than windowMs after the oldest of them.
C14_WindowHoldsMaxRequests ==
    \A k \in (maxRequests + 1)..Len(admissions) :
        admissions[k] >= admissions[k - maxRequests] + windowMs

\* maxRequests admissions at one instant, a further caller that had to wait on
\* a timer, and its admission exactly windowMs after the oldest
C14_Witness ==
    /\ Len(admissions) = maxRequests + 1
    /\ admissions[maxRequests] = admissions[1]
    /\ admissions[maxRequests + 1] = admissions[1] + windowMs
    /\ timers = EmptyBag


\* ---------------------------------------------------------------------------
\* C15: a get resolves with the translation of the latest entry set for its
\* (text, source, target) when it is checked before that entry's timestamp
\* plus ttl, and with null at or after it (or when nothing was set), whether
\* the memory tier or IndexedDB answers.
C15_EntryReturnedUntilTtl ==
    returned # NoResult =>
        LET entry == returned.latest
        IN  returned.value =
                IF entry # NoEntry /\ returned.at - entry.timestamp < ttl
                THEN entry.translatedText
                ELSE Null

\* IndexedDB answers at the last valid instant for an entry the memory tier
\* no longer holds
C15_Witness ==
    /\ returned # NoResult
    /\ returned.tier = "indexedDB"
    /\ returned.latest # NoEntry
    /\ returned.value = returned.latest.translatedText
    /\ returned.at = returned.latest.timestamp + ttl - 1


\* ---------------------------------------------------------------------------
\* C16: the cache key is one-to-one on (text, sourceLanguage, targetLanguage):
\* two different triples never get the same key.
C16_CacheKeyInjective ==
    result.op = "getCacheKey" => (arg.a # arg.b => result.a # result.b)

\* ---------------------------------------------------------------------------
\* C17: applyTranslations returns the input tree with the same keys, array
\* lengths and non-string leaves, in which a string leaf holds the mapped
\* text exactly when its own path was put in the map, and its original value
\* otherwise.
RECURSIVE ReplaceAtPaths(_, _, _)
ReplaceAtPaths(obj, path, entries) ==
    CASE obj.t = "str" ->
           IF \E i \in DOMAIN entries : entries[i].path = path
           THEN JStr(entries[CHOOSE i \in DOMAIN entries : entries[i].path = path].text)
           ELSE obj
      [] obj.t = "arr" ->
           JArr([i \in 1..Len(obj.items) |->
                   ReplaceAtPaths(obj.items[i], Append(path, ToString(i - 1)), entries)])
      [] obj.t = "obj" ->
           JObj([i \in 1..Len(obj.entries) |->
                   KV(obj.entries[i].k,
                      ReplaceAtPaths(obj.entries[i].v, Append(path, obj.entries[i].k), entries))])
      [] OTHER -> obj
C17_LeafReplacedIffOwnPathMapped ==
    result.op = "applyTranslations" =>
        result.value = ReplaceAtPaths(arg.tree, <<>>, arg.entries)

\* ---------------------------------------------------------------------------
\* C18: extractStrings followed by applyTranslations with the identity map
\* (each occurrence path joined to its own original value) gives back a tree
\* deep-equal to the input.
C18_ExtractApplyIdentity ==
    result.op = "extractThenApply" => result.value = arg.tree

\* ---------------------------------------------------------------------------
\* C19: deduplicateStrings partitions the occurrence list by value: every
\* occurrence index is in the originalIndices of exactly one unique string,
\* the indices of a unique string all carry its value, and no two unique
\* strings share a value.
IndexSet(indices) == {indices[n] : n \in DOMAIN indices}
C19_DeduplicateIsPartition ==
    result.op = "deduplicateStrings" =>
        LET strings == result.strings
            unique == result.unique
        IN  /\ \A i \in DOMAIN strings :
                  Cardinality({u \in DOMAIN unique :
                                 i \in IndexSet(unique[u].originalIndices)}) = 1
            /\ \A u \in DOMAIN unique :
                  /\ IndexSet(unique[u].originalIndices) \subseteq DOMAIN strings
                  /\ Cardinality(IndexSet(unique[u].originalIndices))
                       = Len(unique[u].originalIndices)
                  /\ \A i \in IndexSet(unique[u].originalIndices) :
                        strings[i].value = unique[u].value
            /\ \A u, v \in DOMAIN unique : u # v => unique[u].value # unique[v].value

\* a list of four occurrences over two values, one of them met three times
C19_Witness ==
    /\ result.op = "deduplicateStrings"
    /\ Len(result.strings) = 4
    /\ Len(result.unique) = 2
    /\ \E u \in DOMAIN result.unique : Len(result.unique[u].originalIndices) = 3

\* ---------------------------------------------------------------------------
\* C20: generateDiff(x, x) holds one unchanged record for each scalar leaf of
\* x, and nothing else.
RECURSIVE UnchangedLeaves(_, _)
UnchangedLeaves(obj, path) ==
    CASE obj.t = "arr" ->
           LET F(i) == UnchangedLeaves(obj.items[i], Append(path, ToString(i - 1)))
           IN  FlatMap(F, 1, Len(obj.items))
      [] obj.t = "obj" ->
           LET F(i) == UnchangedLeaves(obj.entries[i].v, Append(path, obj.entries[i].k))
           IN  FlatMap(F, 1, Len(obj.entries))
      [] OTHER -> <<DiffRecord(path, obj, obj, "unchanged")>>
C20_SelfDiffUnchanged ==
    result.op = "generateDiff" => result.value = UnchangedLeaves(arg.tree, <<>>)

\* the diff of a tree with a null leaf and an empty array
C20_Witness ==
    /\ result.op = "generateDiff"
    /\ arg.tree = JObj(<<KV("a", JNull), KV("b", JArr(<<>>))>>)
    /\ Len(result.value) = 1
    /\ result.value[1].type = "unchanged"


\* ---------------------------------------------------------------------------
\* C21: when translated has no key or path that original lacks, overwriting
\* original at the paths of createPatch(original, translated) with the patch
\* values gives translated.
RECURSIVE Override(_, _)
Override(original, patch) ==
    CASE patch.t = "str" -> patch
      [] patch.t = "obj" /\ original.t = "obj" ->
           JObj([i \in DOMAIN original.entries |->
                   IF HasKey(patch.entries, original.entries[i].k)
                   THEN KV(original.entries[i].k,
                           Override(original.entries[i].v,
                                    ValueAt(patch.entries, original.entries[i].k)))
                   ELSE original.entries[i]])
      [] patch.t = "obj" /\ original.t = "arr" ->
           JArr([i \in DOMAIN original.items |->
                   IF HasKey(patch.entries, ToString(i - 1))
                   THEN Override(original.items[i], ValueAt(patch.entries, ToString(i - 1)))
                   ELSE original.items[i]])
      [] OTHER -> original
C21_PatchReconstructsTranslated ==
    result.op = "createPatch" => Override(arg.original, result.value) = arg.translated

\* ---------------------------------------------------------------------------
\* C22: when every leaf changed, the patch has the shape of the translated
\* tree: for {"a":"Hello","b":["Hello","World"]} translated to
\* {"a":"Bonjour","b":["Bonjour","Monde"]} the patch is the translated tree,
\* with b an array.
C22_PatchSameShape ==
    (/\ result.op = "createPatch"
     /\ arg.original = TreeHello
     /\ arg.translated = JObj(<<KV("a", JStr("Bonjour")),
                                KV("b", JArr(<<JStr("Bonjour"), JStr("Monde")>>))>>))
    => result.value = arg.translated

\* C23: every call to the backend ends, so a job does not stay translating
\* forever and every accepted run eventually returns
RunReturns(l) ==
    (l \in DOMAIN loops /\ loops[l].pc # "done") ~> (l \in DOMAIN loops /\ loops[l].pc = "done")
C23_EveryRunReturns == \A l \in 1..MaxLoops : RunReturns(l)


\* ---------------------------------------------------------------------------
\* C24: however cleanupExpired interleaves with get and set, neither its sweep
\* of the memory tier nor its sweep of IndexedDB removes an entry that is still
\* valid, and a get that was waiting for IndexedDB meanwhile still resolves
\* with the translation of a valid entry.
SweepsMemory ==
    /\ Len(dbQueue') = Len(dbQueue) + 1
    /\ dbQueue'[Len(dbQueue')].op = "sweep"
SweepsIndexedDB ==
    /\ dbQueue # <<>>
    /\ Head(dbQueue).op = "sweep"
    /\ dbQueue' = Tail(dbQueue)
ResolvesGet ==
    /\ dbQueue # <<>>
    /\ Head(dbQueue).op = "get"
    /\ dbQueue' = Tail(dbQueue)
ValidKept ==
    /\ \A i \in DOMAIN memoryEntries :
           isValidEntry(memoryEntries[i].entry, clock)
               => \E j \in DOMAIN memoryEntries' : memoryEntries'[j] = memoryEntries[i]
    /\ \A key \in DOMAIN dbEntries :
           isValidEntry(dbEntries[key], clock)
               => key \in DOMAIN dbEntries' /\ dbEntries'[key] = dbEntries[key]
C24_CleanupSparesValidEntries ==
    [][/\ (SweepsMemory \/ SweepsIndexedDB) => ValidKept
       /\ ResolvesGet =>
              LET latest == callers[Head(dbQueue).caller].latest
              IN  (latest # NoEntry /\ isValidEntry(latest, clock))
                      => returned'.value = latest.translatedText]_allVars

\* a get that waited for IndexedDB while cleanupExpired swept the memory tier
\* (its IndexedDB sweep is still queued) has resolved with the translation, and
\* the memory tier holds a valid entry the sweep has spared
C24_Witness ==
    /\ returned # NoResult
    /\ returned.tier = "indexedDB"
    /\ returned.latest # NoEntry
    /\ returned.value = returned.latest.translatedText
    /\ \E i \in DOMAIN dbQueue : dbQueue[i].op = "sweep"


\* ---------------------------------------------------------------------------
\* C25: when the source language is 'auto' and the detect request fails, the
\* job neither fails nor uses up a retry: detection yields 'en' and the job
\* goes on to the translate call with 'en' as its source language.
C25_FailedDetectionYieldsEn ==
    [][event' = "detect:failed" =>
          \E l \in DOMAIN loops :
              /\ loops[l].pc = "detectWait"
              /\ JobOf(loops[l]).sourceLanguage = "auto"
              /\ loops'[l].pc = "translateWait"
              /\ loops'[l].src = "en"
              /\ JobOfNext(loops'[l]) = JobOf(loops[l])
              /\ hist'[loops[l].sid].translateCalls = hist[loops[l].sid].translateCalls + 1
              /\ hist'[loops[l].sid].failedTexts = hist[loops[l].sid].failedTexts]_allVars

\* the detect request of a job that has not been retried has failed, and the
\* job is waiting for its translate call from 'en'
C25_Witness ==
    /\ event = "detect:failed"
    /\ \E l \in DOMAIN loops :
           /\ loops[l].pc = "translateWait"
           /\ loops[l].src = "en"
           /\ JobOf(loops[l]).sourceLanguage = "auto"
           /\ JobOf(loops[l]).status = "translating"
           /\ JobOf(loops[l]).retryCount = 0


\* ---------------------------------------------------------------------------
\* C26: a failure of the durable cache tier never fails a job. A failing read
\* makes get answer like a miss: the job is left as it is and goes on to the
\* rate limiter. A failing write after a successful translation leaves the job
\* as it is, completed with its translatedText and its retryCount.
C26_DurableFailureLeavesJob ==
    [][/\ event' = "cache:readFailed" =>
              \E l \in DOMAIN loops :
                  /\ loops[l].pc = "cacheWait"
                  /\ loops'[l].pc = "rateWait"
                  /\ sessions' = sessions
                  /\ Len(loops) = 1 => JobOfNext(loops'[l]).status = "translating"
       /\ event' = "cache:writeFailed" =>
              \E l \in DOMAIN loops :
                  /\ loops[l].pc = "cacheSetWait"
                  /\ loops'[l].pc = "jobDone"
                  /\ sessions' = sessions
                  /\ Len(loops) = 1 =>
                         /\ JobOfNext(loops'[l]).status = "completed"
                         /\ JobOfNext(loops'[l]).translatedText
                                = TranslationOf(JobOf(loops[l]).originalText)]_allVars

\* the write to IndexedDB has failed for a job that was translated at the
\* first attempt: the store lacks the entry and the job is completed
C26_Witness ==
    /\ event = "cache:writeFailed"
    /\ \E l \in DOMAIN loops :
           /\ loops[l].pc = "jobDone"
           /\ JobOf(loops[l]).status = "completed"
           /\ JobOf(loops[l]).translatedText = TranslationOf(JobOf(loops[l]).originalText)
           /\ JobOf(loops[l]).retryCount = 0
           /\ getCacheKey(JobOf(loops[l]).originalText, loops[l].src,
                          JobOf(loops[l]).targetLanguage) \notin DOMAIN store


\* ---------------------------------------------------------------------------
\* C27: within a session jobs are dispatched in batch order and, inside a
\* batch, in job order: when a job is set to translating, every job before it
\* in that order is completed or in error, also across pauses and resumes.
JobPositions(S) ==
    {x \in (DOMAIN S.batches) \X (1..MaxBatchSize + 1) : x[2] \in DOMAIN S.batches[x[1]].jobs}
Precedes(x, y) == x[1] < y[1] \/ (x[1] = y[1] /\ x[2] < y[2])
Dispatched(sid, x) ==
    /\ sessions[sid].batches[x[1]].jobs[x[2]].status # "translating"
    /\ sid \in DOMAIN sessions'
    /\ sessions'[sid].status # "collected"
    /\ sessions'[sid].batches[x[1]].jobs[x[2]].status = "translating"
C27_JobsDispatchedInOrder ==
    [][\A sid \in LiveSessions : \A x \in JobPositions(sessions[sid]) :
           Dispatched(sid, x) =>
               \A y \in JobPositions(sessions[sid]) :
                   Precedes(y, x) =>
                       sessions'[sid].batches[y[1]].jobs[y[2]].status \in {"completed", "error"}]_allVars


\* ---------------------------------------------------------------------------
\* C28: the wait before a job is attempted again is 2^retryCount seconds with
\* the retryCount after its increment, so 2, 4, 8, ... seconds before the
\* first, second, third, ... retry; the retry starts again at the cache lookup
\* and a translate call is only made after a new wait for a rate-limiter slot.
EntersBackoff(l) == loops[l].pc = "translateWait" /\ loops'[l].pc = "backoff"
C29_BatchesPartitionStrings ==
    result.op = "createBatches" =>
        LET batches == result.value
            jobs == AllJobs(batches, 1)
        IN  /\ \A b \in DOMAIN batches :
                   /\ Len(batches[b].jobs) >= 1
                   /\ Len(batches[b].jobs) <= arg.batchSize
                   /\ b < Len(batches) => Len(batches[b].jobs) = arg.batchSize
                   /\ batches[b].status = "pending"
            /\ Len(jobs) = Len(arg.strings)
            /\ \A i \in DOMAIN jobs :
                   /\ jobs[i].originalText = arg.strings[i].value
                   /\ jobs[i].status = "pending"
                   /\ jobs[i].retryCount = 0
                   /\ jobs[i].sourceLanguage = arg.session.sourceLanguage
                   /\ jobs[i].targetLanguage = arg.session.targetLanguage

\* unique strings that do not fill the last batch: full batches, then a
\* shorter one
C29_Witness ==
    /\ result.op = "createBatches"
    /\ arg.batchSize > 1
    /\ Len(result.value) >= 2
    /\ Len(result.value[Len(result.value)].jobs) < arg.batchSize
    /\ Len(result.value[1].jobs) = arg.batchSize


\* ---------------------------------------------------------------------------
\* C30: translatedJson is assigned only where no pause is pending and the
\* session is not in error; a run during which the session was paused leaves
\* no translatedJson of its own; and a run that sets the status completed has
\* generated translatedJson itself.
Returns(l) == loops[l].pc = "final" /\ loops'[l].pc = "done"
\* the session was paused while the run was under way: the pause is still
\* pending, or the run of startTranslation has seen a resumeTranslation accepted,
\* which takes a stopTranslation during that run
PausedMidRun(l) ==
    \/ pauseRequested
    \/ loops[l].kind = "start" /\ hist[loops[l].sid].resumed
C30_TranslatedJsonOfUnpausedRun ==
    [][\A l \in DOMAIN loops :
           Returns(l) =>
               LET S == sessions[loops[l].sid]
                   T == sessions'[loops[l].sid]
               IN  /\ T.translatedJson # S.translatedJson
                          => ~pauseRequested /\ S.status # "error"
                   /\ PausedMidRun(l) => T.translatedJson = S.translatedJson
                   /\ (T.status = "completed" /\ S.status # "completed")
                          => T.translatedJson = generateFinalResult(S).translatedJson]_allVars


\* ---------------------------------------------------------------------------
\* C31: the memory tier never holds more entries than its capacity; a set that
\* needs room removes the key inserted earliest and nothing else; a get leaves
\* the tier and its order of eviction as they are.
KeysOf(m) == {m[i].key : i \in DOMAIN m}
MemoryBefore(maps, i) == IF i = 1 THEN <<>> ELSE maps[i - 1]
InvalidAtCutoffGone ==
    LET cutoff == Head(dbQueue).cutoff
    IN  /\ \A i \in DOMAIN memoryEntries' : memoryEntries'[i].entry.timestamp > cutoff
        /\ \A key \in DOMAIN dbEntries' : dbEntries'[key].timestamp > cutoff
C32_CleanupLeavesExactlyValid ==
    [][SweepsIndexedDB => InvalidAtCutoffGone /\ ValidKept]_allVars


\* ---------------------------------------------------------------------------
\* C33: when the two nodes generateDiff compares are of different types
\* (object and scalar, array and scalar, array and object), the diff has
\* exactly one record for that path, of type changed, holding the two nodes:
\* neither node is recursed into.
NodeKind(node) == IF node.t \in {"arr", "obj"} THEN node.t ELSE "scalar"
RECURSIVE NodeAt(_, _)
NodeAt(node, path) ==
    IF Len(path) = 0 THEN node ELSE NodeAt(ValueAt(EntriesOf(node), path[1]), Tail(path))
C33_TypeMismatchIsOneChanged ==
    result.op = "generateDiffOfTwo" =>
        LET original == NodeAt(arg.original, arg.path)
            translated == NodeAt(arg.translated, arg.path)
        IN  NodeKind(original) # NodeKind(translated)
                => result.value = <<DiffRecord(arg.path, original, translated, "changed")>>

\* ---------------------------------------------------------------------------
\* C34: the tree a session was started with is never changed: a session is
\* created holding one of the trees passed to startTranslation with
\* totalStrings strings extracted from it, and no later step (pause, stop,
\* resume, a step of a run, the finalization that builds translatedJson)
\* changes the originalJson of a session that exists before and after it.
C34_OriginalJsonIsNeverChanged ==
    [][/\ \A sid \in LiveSessions :
             (sid \in DOMAIN sessions' /\ sessions'[sid].status # "collected")
                 => sessions'[sid].originalJson = sessions[sid].originalJson
       /\ \A sid \in DOMAIN sessions' \ DOMAIN sessions :
             /\ sessions'[sid].originalJson \in Trees
             /\ sessions'[sid].totalStrings
                    = Len(extractStrings(sessions'[sid].originalJson, <<>>))]_vars

\* a session that was paused, resumed and finalized: its translatedJson is a
\* different tree, its originalJson still has the strings that were extracted
C34_Witness ==
    /\ currentSession # 0
    /\ sessions[currentSession].status = "completed"
    /\ hist[currentSession].resumed
    /\ sessions[currentSession].translatedJson # UndefinedJson
    /\ sessions[currentSession].translatedJson # sessions[currentSession].originalJson
    /\ sessions[currentSession].originalJson = TreeHello

\* ---------------------------------------------------------------------------
\* C36: a text that reaches the placeholder rule of shouldTranslate is
\* rejected by it exactly when the characters covered by its placeholder-like
\* tokens ({{x}}, {x}, %x%, ${x}) are more than half of its characters, a
\* character being counted once however many patterns match it.
RECURSIVE PlaceholderCovered(_, _)
\* the positions of s, from i on, inside a placeholder-like token
PlaceholderCovered(s, i) ==
    IF i > Len(s) THEN {}
    ELSE LET n == PlaceholderAt(s, i)
         IN  IF n > 0 THEN (i..(i + n - 1)) \cup PlaceholderCovered(s, i + n)
             ELSE PlaceholderCovered(s, i + 1)
ReachesPlaceholderRule(text) ==
    /\ Len(Trim(text)) >= 2
    /\ ~URL_PATTERN(text) /\ ~EMAIL_PATTERN(text) /\ ~HEX_COLOR_PATTERN(text)
    /\ ~NUMBER_PATTERN(Trim(text))
C36_PlaceholderRuleCountsOnce ==
    (result.op = "shouldTranslate" /\ ReachesPlaceholderRule(arg.text)) =>
        ((~result.value /\ 2 * result.matchedLength > Len(arg.text))
            <=> 2 * Cardinality(PlaceholderCovered(arg.text, 1)) > Len(arg.text))

\* ---------------------------------------------------------------------------
\* C35: when the cache holds the entry that a completed job with the same
\* originalText, sourceLanguage and targetLanguage has written (under the
\* detected code when sourceLanguage is 'auto'), the cache lookup of processJob
\* that reads it without failure is a hit: the job completes with the cached
\* text and no translate call follows.
WrittenByLikeJob(job) ==
    \E sourceLanguage \in EffectiveSources(job.sourceLanguage) :
        getCacheKey(job.originalText, sourceLanguage, job.targetLanguage) \in DOMAIN store
C35_WrittenEntryIsHit ==
    [][\A l \in DOMAIN loops :
          (/\ loops[l].pc = "cacheWait"
           /\ loops'[l].pc # "cacheWait"
           /\ event' # "cache:readFailed"
           /\ WrittenByLikeJob(JobOf(loops[l])))
              => /\ loops'[l].pc = "jobDone"
                 /\ JobOfNext(loops[l]).status = "completed"
                 /\ JobOfNext(loops[l]).translatedText = TranslationOf(JobOf(loops[l]).originalText)]_allVars

\* ---------------------------------------------------------------------------
\* C37: in every trailing window of windowMs at most maxRequests translate
\* calls are issued: the translate call that follows maxRequests translate
\* calls is issued no earlier than windowMs after the oldest of them, however
\* long detectLanguage takes between the admission and the call.
C37_WindowHoldsMaxTranslateCalls ==
    \A k \in (maxRequests + 1)..Len(translates) :
        translates[k] >= translates[k - maxRequests] + windowMs

\* ---------------------------------------------------------------------------
\* C38: a session whose status is completed keeps that status, and canResume()
\* stays false, as long as the session is the current one; pauseTranslation and
\* stopTranslation called while no run is in progress change neither the
\* status of the current session nor pauseRequested.
canResume ==
    /\ currentSession # 0
    /\ sessions[currentSession].status = "paused"
    /\ ~isProcessing
C38_CompletedStaysCompleted ==
    [][/\ (/\ currentSession # 0
           /\ sessions[currentSession].status = "completed"
           /\ currentSession' = currentSession)
              => /\ sessions'[currentSession].status = "completed"
                 /\ ~canResume'
       /\ (event' \in {"pause", "stop"} /\ ~isProcessing)
              => /\ pauseRequested' = pauseRequested
                 /\ currentSession # 0
                        => sessions'[currentSession].status = sessions[currentSession].status]_vars

\* ---------------------------------------------------------------------------
\* C39: the counters of a session never add up to more than totalStrings, and
\* a session that is completed with no job in error, all its jobs being
\* completed or skipped, has translatedStrings + skippedStrings = totalStrings
\* (the progress shown is 100%), also when a translatable value occurs more
\* than once in the tree.
CountersWithinTotal(S) ==
    S.translatedStrings + S.skippedStrings + S.errorStrings <= S.totalStrings
CompletedShowsAll(S) ==
    (/\ S.status = "completed"
     /\ \A status \in {"error", "pending", "translating"} : JobsWithStatus(S, status) = {})
        => S.translatedStrings + S.skippedStrings = S.totalStrings
C39_CountersAddUpToTotal ==
    \A sid \in LiveSessions :
        CountersWithinTotal(sessions[sid]) /\ CompletedShowsAll(sessions[sid])

\* ---------------------------------------------------------------------------
\* C40: a batch whose status is completed has no job that is pending or
\* translating; when no activation is running no job of a session is
\* translating, and the progress of a batch is 100 exactly when all its jobs
\* are completed or skipped.
JobsIn(batch, statuses) == {j \in DOMAIN batch.jobs : batch.jobs[j].status \in statuses}
CompletedBatchIsDone(batch) ==
    batch.status = "completed" => JobsIn(batch, {"pending", "translating"}) = {}
ProgressIsFull(batch) == batch.progress[1] = 100 * batch.progress[2]
FullExactlyWhenDone(batch) ==
    ProgressIsFull(batch) <=> JobsIn(batch, {"completed", "skipped"}) = DOMAIN batch.jobs
C40_BatchStatusAgreesWithJobs ==
    \A sid \in LiveSessions : \A b \in DOMAIN sessions[sid].batches :
        LET batch == sessions[sid].batches[b]
        IN  /\ CompletedBatchIsDone(batch)
            /\ ActiveLoops = {} => /\ JobsIn(batch, {"translating"}) = {}
                                   /\ FullExactlyWhenDone(batch)

====
